---- MODULE Spec2Model ----
(***************************************************************************)
(* Membership table, state-change handlers (aliveNode, suspectNode,        *)
(* deadNode, refute, mergeState, resetNodes), suspicion timers, awareness, *)
(* the probe loop and the scheduler of the memberlist core.                *)
(*                                                                         *)
(* Time is a discrete clock `now` counted in whole milliseconds.  The      *)
(* unsigned 32-bit counters of the code are kept modulo IncMod, a scaled   *)
(* down 2^32, so that wrap-around at the top of the range is reachable.    *)
(***************************************************************************)
EXTENDS Integers, Sequences, FiniteSets, TLC

VARIABLES
    config,       \* m.config: fixed at construction
    nodeMap,      \* m.nodeMap: name -> nodeState
    nodes,        \* m.nodes: ordered sequence of the entries (by name)
    numNodes,     \* m.numNodes
    nodeTimers,   \* m.nodeTimers: name -> suspicion
    detached,     \* armed time.Timers whose suspicion was deleted from nodeTimers
    callbacks,    \* running timeout callbacks (goroutines of fn in suspectNode)
    incarnation,  \* m.incarnation
    score,        \* m.awareness.score
    leave,        \* m.leave flag read by hasLeft()
    now,          \* the clock read by time.Now()
    delivered,    \* number of messages handed to the handlers so far
    op,           \* the handler that ran last
    out,          \* calls that handler made to the broadcast queue and delegates
    probeIndex,   \* m.probeIndex
    round,        \* the probe targets since probeIndex last wrapped, in order,
                  \* and whether aliveNode added an entry since then
    tickers,      \* m.tickers: the time.Tickers of the running schedule
    stopTick,     \* m.stopTick: a stop channel, 0 for nil
    stopChs,      \* the stop channels made so far: TRUE once closed
    tasks,        \* the goroutines schedule() started that have not returned
    seqNo,        \* m.sequenceNum: the sequence number nextSeqNo() gave last
    ackHandlers,  \* m.ackHandlers: the sequence numbers that have an entry
    ackCh,        \* ackCh of each probeNode: its buffered ackMessages, by seqNo
    nackCh,       \* nackCh of each probeNode: the count it buffers, by seqNo
    reapers,      \* ah.timer of each entry: the time.AfterFunc of the reaper
    acking,       \* invokeAckHandler calls that hold ah and have yet to call ackFn
    probing,      \* the probeNode call in progress: its position and locals
    net,          \* what was sent and received for each seqNo
    nodeLock,     \* m.nodeLock: the handler that holds it, "" when it is free
    notifying,    \* the event delegate calls the holder has yet to make
    eventCh       \* ChannelEventDelegate.Ch: the NodeEvents it buffers

probeVars == <<probeIndex, round>>

schedVars == <<tickers, stopTick, stopChs, tasks>>

ackVars == <<seqNo, ackHandlers, ackCh, nackCh, reapers, acking, probing, net>>

lockVars == <<nodeLock, notifying, eventCh>>

\* the membership table and everything else the handlers write
table == <<nodeMap, nodes, numNodes, nodeTimers, detached, callbacks,
           incarnation, score, leave>>

vars == <<config, nodeMap, nodes, numNodes, nodeTimers, detached, callbacks,
          incarnation, score, leave, now, delivered, op, out, probeVars,
          schedVars, ackVars, lockVars>>

-----------------------------------------------------------------------------
\* Bounds of the model.

\* modulus of the uint32 counters (2^32 in the code)
IncMod == 4
\* the clock stops advancing here
MaxTime == 2
\* the same for the three-node cluster, whose suspicions last longer
MaxClusterTime == 3
\* messages delivered in one behaviour
MaxMsgs == 3
\* modulus of the signed machine integers, int and time.Duration (2^64 in the
\* code): the values run from -(IntMod \div 2) to (IntMod - 1) \div 2
IntMod == 32
\* the largest AwarenessMaxMultiplier
MaxAwareness == 4
\* calls of schedule() that make a stop channel, in one behaviour
MaxSchedules == 2
\* sequence numbers nextSeqNo() gives, that is probeNode calls, in one behaviour
MaxSeq == 1
\* acks, and nacks, the network delivers for one sequence number
MaxAcks == 2
MaxNacks == 2
\* the largest IndirectChecks
MaxIndirect == 1
\* records in a remote snapshot given to verifyProtocol
MaxRemote == 2
\* the largest SuspicionMult
MaxMult == 3
\* NodeEvents the channel of a ChannelEventDelegate buffers
MaxEvents == 1

-----------------------------------------------------------------------------
\* Program constants and the values messages are drawn from.

StateAlive == 0
StateSuspect == 1
StateDead == 2
StateLeft == 3

\* m.config.Name
Self == "A"
\* names of the nodes messages are about and come from
Names == {"A", "B"}
\* the members of the three-node cluster
ClusterNames == {"A", "B", "C"}
Addrs == {"10.0.0.1", "10.0.0.2"}
Ports == {7946}
Metas == {"m1", "m2"}
\* version vectors carried by alive messages: all well formed
Vsns == {<<1, 5, 2, 0, 0, 0>>}
Incarnations == 0 .. (IncMod - 1)

\* the zero time.Time of a freshly built nodeState
ZeroTime == -1
\* time.Since saturates for the zero time
MaxDuration == 1000000

\* a configuration that expects no confirmations (SuspicionMult - 2 < 1)
SmallConfig ==
    [ProbeInterval |-> 1,
     SuspicionMult |-> 1,
     SuspicionMaxTimeoutMult |-> 2,
     GossipToTheDeadTime |-> 1,
     DeadNodeReclaimTime |-> 1,
     AwarenessMaxMultiplier |-> 2]

\* a configuration that expects one confirmation in a cluster of three
ClusterConfig == [SmallConfig EXCEPT !.SuspicionMult = 3]

AliveMsgs ==
    [Incarnation : Incarnations, Node : Names, Addr : Addrs, Port : Ports,
     Meta : Metas, Vsn : Vsns]
SuspectMsgs == [Incarnation : Incarnations, Node : Names, From : Names]
DeadMsgs == [Incarnation : Incarnations, Node : Names, From : Names]

-----------------------------------------------------------------------------
\* Helpers.

U32(x) == x % IncMod

Since(t) == IF t = ZeroTime THEN MaxDuration ELSE now - t

DeadOrLeft(n) == n.State = StateDead \/ n.State = StateLeft

SeqToSet(s) == {s[i] : i \in 1 .. Len(s)}

Swap(s, i, j) == [s EXCEPT ![i] = s[j], ![j] = s[i]]

Remove(f, x) == [y \in DOMAIN f \ {x} |-> f[y]]

Put(f, x, v) == [y \in DOMAIN f \cup {x} |-> IF y = x THEN v ELSE f[y]]

\* m.config.IPAllowed with no CIDR list configured: every address passes
IPAllowed(addr) == TRUE

\* m.config.Alive is nil: no alive delegate filters messages
AliveDelegateRejects(a) == FALSE

\* The state the handlers work on, as one record.
St ==
    [nodeMap |-> nodeMap, nodes |-> nodes, numNodes |-> numNodes,
     nodeTimers |-> nodeTimers, detached |-> detached, callbacks |-> callbacks,
     incarnation |-> incarnation, score |-> score, leave |-> leave, out |-> <<>>]

Emit(st, e) == [st EXCEPT !.out = Append(@, e)]

\* encodeAndBroadcast / encodeBroadcastNotify: queue a message under a key
Broadcast(st, key, type, msg, notify) ==
    Emit(st, [kind |-> "broadcast", key |-> key, type |-> type, msg |-> msg,
              notify |-> notify])

-----------------------------------------------------------------------------
\* awareness

\* the signed integers of the machine and their arithmetic, which wraps around
MinInt == 0 - (IntMod \div 2)
MaxInt == (IntMod - 1) \div 2
WrapInt(x) == ((x - MinInt) % IntMod) + MinInt

\* variant of ApplyDelta: the score has no ceiling
ApplyDeltaNoCeiling(s, delta) ==
    LET raw == WrapInt(s + delta)
    IN  IF raw < 0 THEN 0 ELSE raw

ApplyDelta(s, delta) ==
    LET max == config.AwarenessMaxMultiplier
        raw == WrapInt(s + delta)
    IN  IF raw < 0 THEN 0 ELSE IF raw > max - 1 THEN max - 1 ELSE raw

\* ScaleTimeout, lines 69-74
ScaleTimeout(s, timeout) == WrapInt(timeout * (WrapInt(s) + 1))

-----------------------------------------------------------------------------
\* suspicion

\* ln(x) * 10^6 for the small arguments the model uses (math.Log)
LogMicro(x) ==
    CASE x = 1 -> 0
      [] x = 2 -> 693147
      [] x = 3 -> 1098612
      [] x = 4 -> 1386294
      [] x = 5 -> 1609438
      [] x = 6 -> 1791759
      [] OTHER -> 1945910

CeilDiv(a, b) == (a + b - 1) \div b

\* variant of RemainingSuspicionTime: the time already elapsed is not deducted
RemainingNoElapsed(n, k, elapsed, min, max) ==
    LET rawMs == max - CeilDiv(LogMicro(n + 1) * (max - min), LogMicro(k + 1))
    IN  IF rawMs < min THEN min ELSE rawMs

\* remainingSuspicionTime: durations are whole milliseconds, so
\* floor(1000 * raw) is max - ceil(frac * (max - min))
RemainingSuspicionTime(n, k, elapsed, min, max) ==
    LET rawMs == max - CeilDiv(LogMicro(n + 1) * (max - min), LogMicro(k + 1))
        timeout == IF rawMs < min THEN min ELSE rawMs
    IN  timeout - elapsed

\* newSuspicion: the timer starts at max, or at min when k < 1; calls counts
\* the times s.timeoutFn was started, by the timer or by Confirm
NewSuspicion(from, k, min, max, node, changeTime) ==
    [n |-> 0, k |-> k, min |-> min, max |-> max, start |-> now,
     confirmations |-> {from},
     timer |-> "armed", deadline |-> now + (IF k < 1 THEN min ELSE max),
     node |-> node, changeTime |-> changeTime, calls |-> 0]

\* the callback goroutine of a suspicion, before it takes the lock
Callback(t) == [node |-> t.node, changeTime |-> t.changeTime, pc |-> "check",
                inc |-> 0]

\* variant of ConfirmAccepts: a peer may confirm more than once
ConfirmAcceptsAgain(t, from) == ~(t.n >= t.k)

\* suspicion.Confirm accepts the confirmation
ConfirmAccepts(t, from) == ~(t.n >= t.k) /\ from \notin t.confirmations

\* variant of ConfirmTimer: timeoutFn is started whenever no time remains,
\* whether or not Stop found the timer still pending
ConfirmTimerIgnoresStop(t, from) ==
    LET n == t.n + 1
        elapsed == now - t.start
        remaining == RemainingSuspicionTime(n, t.k, elapsed, t.min, t.max)
        t1 == [t EXCEPT !.n = n, !.confirmations = @ \cup {from}]
    IN  IF remaining > 0
        THEN IF t.timer = "armed" THEN [t1 EXCEPT !.deadline = now + remaining]
             ELSE t1
        ELSE [t1 EXCEPT !.timer = "stopped", !.calls = @ + 1]

\* suspicion.Confirm: the suspicion after an accepted confirmation
ConfirmTimer(t, from) ==
    LET n == t.n + 1
        elapsed == now - t.start
        remaining == RemainingSuspicionTime(n, t.k, elapsed, t.min, t.max)
        t1 == [t EXCEPT !.n = n, !.confirmations = @ \cup {from}]
    IN  IF t.timer = "armed"
        THEN IF remaining > 0
             THEN [t1 EXCEPT !.deadline = now + remaining]
             ELSE [t1 EXCEPT !.timer = "stopped", !.calls = @ + 1]
        ELSE t1

\* suspicion.Confirm dispatches timeoutFn itself (go s.timeoutFn())
ConfirmDispatches(t, from) ==
    /\ ConfirmAccepts(t, from)
    /\ t.timer = "armed"
    /\ RemainingSuspicionTime(t.n + 1, t.k, now - t.start, t.min, t.max) <= 0

\* variant of DeleteTimer: the suspicion stays in the map
DeleteTimerKeeps(st, name) == st

\* delete(m.nodeTimers, name): the suspicion leaves the map, its time.Timer
\* is not stopped and stays armed
DeleteTimer(st, name) ==
    IF name \in DOMAIN st.nodeTimers
    THEN LET t == st.nodeTimers[name]
         IN  [st EXCEPT !.nodeTimers = Remove(@, name),
                        !.detached = IF t.timer = "armed"
                                     THEN @ \cup {[node |-> t.node,
                                                   changeTime |-> t.changeTime,
                                                   deadline |-> t.deadline]}
                                     ELSE @]
    ELSE st

\* suspicionTimeout for clusters of at most ten nodes (node scale 1)
SuspicionTimeout(suspicionMult, n, interval) == suspicionMult * interval

-----------------------------------------------------------------------------
\* State-change handlers, as functions from the state before to the state after.

\* nextIncarnation followed, when the accusation is not beaten, by
\* skipIncarnation(accusedInc - inc + 1); all arithmetic is unsigned 32-bit
RefuteIncarnation(cur, accusedInc) ==
    LET inc == U32(cur + 1)
    IN  IF accusedInc >= inc
        THEN U32(inc + U32(accusedInc - inc + 1))
        ELSE inc

\* refute(me, accusedInc), me being the local node's entry
Refute(st, accusedInc) ==
    LET me == st.nodeMap[Self]
        inc == RefuteIncarnation(st.incarnation, accusedInc)
        a == [Incarnation |-> inc, Node |-> me.Name, Addr |-> me.Addr,
              Port |-> me.Port, Meta |-> me.Meta, Vsn |-> me.Vsn]
        s1 == [st EXCEPT !.incarnation = inc,
                         !.nodeMap[Self].Incarnation = inc,
                         !.score = ApplyDelta(@, 1)]
    IN  Broadcast(s1, me.Addr, "alive", a, FALSE)

\* variant of InsertNode: the new entry is not counted in numNodes
InsertNodeNoCount(st, a, offset) ==
    LET state == [Name |-> a.Node, Addr |-> a.Addr, Port |-> a.Port,
                  Meta |-> a.Meta,
                  Vsn |-> IF Len(a.Vsn) > 5 THEN a.Vsn ELSE <<0, 0, 0, 0, 0, 0>>,
                  Incarnation |-> 0, State |-> StateDead,
                  StateChange |-> ZeroTime]
        n == Len(st.nodes)
    IN  [st EXCEPT !.nodeMap = Put(@, a.Node, state),
                   !.nodes = Swap(Append(@, a.Node), offset + 1, n + 1)]

\* aliveNode, lines 1132-1171: a name seen for the first time
InsertNode(st, a, offset) ==
    LET state == [Name |-> a.Node, Addr |-> a.Addr, Port |-> a.Port,
                  Meta |-> a.Meta,
                  Vsn |-> IF Len(a.Vsn) > 5 THEN a.Vsn ELSE <<0, 0, 0, 0, 0, 0>>,
                  Incarnation |-> 0, State |-> StateDead,
                  StateChange |-> ZeroTime]
        n == Len(st.nodes)
    IN  [st EXCEPT !.nodeMap = Put(@, a.Node, state),
                   !.nodes = Swap(Append(@, a.Node), offset + 1, n + 1),
                   !.numNodes = U32(@ + 1)]

\* aliveNode, lines 1180-1211: the address or port differs from the stored one
AddrDiffers(state, a) == state.Addr # a.Addr \/ state.Port # a.Port

\* variant of CanReclaim: a dead entry's name can be reclaimed at once
CanReclaimAtOnce(state) == TRUE

\* variant of CanReclaim: the name can be reclaimed once the time elapsed
\* equals DeadNodeReclaimTime
CanReclaimAtLimit(state) ==
    /\ config.DeadNodeReclaimTime > 0
    /\ Since(state.StateChange) >= config.DeadNodeReclaimTime

CanReclaim(state) ==
    /\ config.DeadNodeReclaimTime > 0
    /\ Since(state.StateChange) > config.DeadNodeReclaimTime

\* variant of UpdatesNode: a new address is taken whatever the state
UpdatesNodeAnyState(state, a) == AddrDiffers(state, a)

UpdatesNode(state, a) ==
    /\ AddrDiffers(state, a)
    /\ (state.State = StateLeft \/ (state.State = StateDead /\ CanReclaim(state)))

\* variant of AliveIsStale: an alive message about another node is never too old
AliveIsStaleLocalOnly(state, a, isLocalNode, updatesNode) ==
    a.Incarnation < state.Incarnation /\ isLocalNode

\* variant of AliveIsStale: an equal incarnation is not too old
AliveIsStaleStrict(state, a, isLocalNode, updatesNode) ==
    \/ a.Incarnation < state.Incarnation /\ ~isLocalNode /\ ~updatesNode
    \/ a.Incarnation < state.Incarnation /\ isLocalNode

\* aliveNode, lines 1214-1225: the message is too old to act on
AliveIsStale(state, a, isLocalNode, updatesNode) ==
    \/ a.Incarnation <= state.Incarnation /\ ~isLocalNode /\ ~updatesNode
    \/ a.Incarnation < state.Incarnation /\ isLocalNode

\* variant of AliveUpdate: StateChange is set by every accepted alive message
AliveUpdateStamps(st, a, notify) ==
    LET state == st.nodeMap[a.Node]
        s1 == Broadcast(st, a.Node, "alive", a, notify)
        new == [state EXCEPT
                  !.Vsn = IF Len(a.Vsn) > 0 THEN a.Vsn ELSE @,
                  !.Incarnation = a.Incarnation,
                  !.Meta = a.Meta,
                  !.Addr = a.Addr,
                  !.Port = a.Port,
                  !.State = StateAlive,
                  !.StateChange = now]
    IN  [s1 EXCEPT !.nodeMap[a.Node] = new]

\* aliveNode, lines 1263-1288: re-broadcast and store the message
AliveUpdate(st, a, notify) ==
    LET state == st.nodeMap[a.Node]
        s1 == Broadcast(st, a.Node, "alive", a, notify)
        new == [state EXCEPT
                  !.Vsn = IF Len(a.Vsn) > 0 THEN a.Vsn ELSE @,
                  !.Incarnation = a.Incarnation,
                  !.Meta = a.Meta,
                  !.Addr = a.Addr,
                  !.Port = a.Port,
                  !.State = StateAlive,
                  !.StateChange = IF state.State # StateAlive THEN now ELSE @]
    IN  [s1 EXCEPT !.nodeMap[a.Node] = new]

\* aliveNode, lines 1293-1306: join and update notifications
\* variant of AliveNotify: every accepted alive message is notified as a join
AliveNotifyJoins(st, name, oldState, oldMeta) ==
    Emit(st, [kind |-> "join", node |-> name])

AliveNotify(st, name, oldState, oldMeta) ==
    IF oldState = StateDead \/ oldState = StateLeft
    THEN Emit(st, [kind |-> "join", node |-> name])
    ELSE IF oldMeta # st.nodeMap[name].Meta
         THEN Emit(st, [kind |-> "update", node |-> name])
         ELSE st

\* aliveNode, lines 1214-1306
AliveTail(st, a, notify, bootstrap, updatesNode) ==
    LET state == st.nodeMap[a.Node]
        isLocalNode == state.Name = Self
    IN  IF AliveIsStale(state, a, isLocalNode, updatesNode)
        THEN st
        ELSE LET s1 == DeleteTimer(st, a.Node)
                 oldState == state.State
                 oldMeta == state.Meta
             IN  IF ~bootstrap /\ isLocalNode
                 THEN IF /\ a.Incarnation = state.Incarnation
                         /\ a.Meta = state.Meta
                         /\ a.Vsn = state.Vsn
                      THEN s1
                      ELSE AliveNotify(Refute(s1, a.Incarnation), a.Node,
                                       oldState, oldMeta)
                 ELSE AliveNotify(AliveUpdate(s1, a, notify), a.Node,
                                  oldState, oldMeta)

\* aliveNode(a, notify, bootstrap); offset is the value randomOffset returns
AliveNode(st, a, notify, bootstrap, offset) ==
    LET ok == a.Node \in DOMAIN st.nodeMap
        vsnWrong == /\ Len(a.Vsn) >= 3
                    /\ (a.Vsn[1] = 0 \/ a.Vsn[2] = 0 \/ a.Vsn[1] > a.Vsn[2])
    IN  IF st.leave /\ a.Node = Self THEN st
        ELSE IF vsnWrong THEN st
        ELSE IF AliveDelegateRejects(a) THEN st
        ELSE IF ~ok
        THEN IF ~IPAllowed(a.Addr) THEN st
             ELSE AliveTail(InsertNode(st, a, offset), a, notify, bootstrap, FALSE)
        ELSE LET state == st.nodeMap[a.Node]
             IN  IF AddrDiffers(state, a)
                 THEN IF ~IPAllowed(a.Addr) THEN st
                      ELSE IF UpdatesNode(state, a)
                      THEN AliveTail(st, a, notify, bootstrap, TRUE)
                      ELSE Emit(st, [kind |-> "conflict", node |-> a.Node])
                 ELSE AliveTail(st, a, notify, bootstrap, FALSE)

\* variant of SuspicionK: the size of the cluster is not looked at
SuspicionKAnySize(n) == config.SuspicionMult - 2

\* suspectNode, lines 1377-1386: the confirmations expected
SuspicionK(n) ==
    LET k == config.SuspicionMult - 2
    IN  IF n - 2 < k THEN 0 ELSE k

\* suspectNode, lines 1358-1418: mark the node suspect and arm its timer
SuspectArm(st, s) ==
    LET s1 == Broadcast(st, s.Node, "suspect", s, FALSE)
        n == st.numNodes
        k == SuspicionK(n)
        min == SuspicionTimeout(config.SuspicionMult, n, config.ProbeInterval)
        max == config.SuspicionMaxTimeoutMult * min
    IN  [s1 EXCEPT !.nodeMap[s.Node].Incarnation = s.Incarnation,
                   !.nodeMap[s.Node].State = StateSuspect,
                   !.nodeMap[s.Node].StateChange = now,
                   !.nodeTimers = Put(@, s.Node,
                                      NewSuspicion(s.From, k, min, max, s.Node, now))]

\* variant of SuspectConfirm: an accepted confirmation is not gossiped on
SuspectConfirmQuiet(st, s) ==
    LET t == st.nodeTimers[s.Node]
    IN  IF ConfirmAccepts(t, s.From)
        THEN [st EXCEPT !.nodeTimers[s.Node] = ConfirmTimer(t, s.From),
                        !.callbacks = IF ConfirmDispatches(t, s.From)
                                      THEN @ \cup {Callback(t)} ELSE @]
        ELSE st

\* suspectNode, lines 1337-1342: a suspicion exists, confirm it
SuspectConfirm(st, s) ==
    LET t == st.nodeTimers[s.Node]
    IN  IF ConfirmAccepts(t, s.From)
        THEN Broadcast(
                 [st EXCEPT !.nodeTimers[s.Node] = ConfirmTimer(t, s.From),
                            !.callbacks = IF ConfirmDispatches(t, s.From)
                                          THEN @ \cup {Callback(t)} ELSE @],
                 s.Node, "suspect", s, FALSE)
        ELSE st

\* variant of SuspectNode: the local node is suspected like any other
SuspectNodeNoRefute(st, s) ==
    IF s.Node \notin DOMAIN st.nodeMap THEN st
    ELSE LET state == st.nodeMap[s.Node]
         IN  IF s.Incarnation < state.Incarnation THEN st
             ELSE IF s.Node \in DOMAIN st.nodeTimers THEN SuspectConfirm(st, s)
             ELSE IF state.State # StateAlive THEN st
             ELSE SuspectArm(st, s)

\* suspectNode(s)
SuspectNode(st, s) ==
    IF s.Node \notin DOMAIN st.nodeMap THEN st
    ELSE LET state == st.nodeMap[s.Node]
         IN  IF s.Incarnation < state.Incarnation THEN st
             ELSE IF s.Node \in DOMAIN st.nodeTimers THEN SuspectConfirm(st, s)
             ELSE IF state.State # StateAlive THEN st
             ELSE IF state.Name = Self THEN Refute(st, s.Incarnation)
             ELSE SuspectArm(st, s)

\* deadNode, lines 1477-1497: store the death and notify
DeadUpdate(st, d) ==
    Emit([st EXCEPT !.nodeMap[d.Node].Incarnation = d.Incarnation,
                    !.nodeMap[d.Node].State =
                        IF d.Node = d.From THEN StateLeft ELSE StateDead,
                    !.nodeMap[d.Node].StateChange = now],
         [kind |-> "leave", node |-> d.Node])

\* variant of deadNode: the incarnation of the message is not looked at
DeadNodeAnyIncarnation(st, d) ==
    IF d.Node \notin DOMAIN st.nodeMap THEN st
    ELSE LET state == st.nodeMap[d.Node]
             s1 == DeleteTimer(st, d.Node)
         IN  IF DeadOrLeft(state) THEN s1
             ELSE IF state.Name = Self
             THEN IF ~st.leave
                  THEN Refute(s1, d.Incarnation)
                  ELSE DeadUpdate(Broadcast(s1, d.Node, "dead", d, TRUE), d)
             ELSE DeadUpdate(Broadcast(s1, d.Node, "dead", d, FALSE), d)

\* deadNode(d)
DeadNode(st, d) ==
    IF d.Node \notin DOMAIN st.nodeMap THEN st
    ELSE LET state == st.nodeMap[d.Node]
         IN  IF d.Incarnation < state.Incarnation THEN st
             ELSE LET s1 == DeleteTimer(st, d.Node)
                  IN  IF DeadOrLeft(state) THEN s1
                      ELSE IF state.Name = Self
                      THEN IF ~st.leave
                           THEN Refute(s1, d.Incarnation)
                           ELSE DeadUpdate(Broadcast(s1, d.Node, "dead", d, TRUE), d)
                      ELSE DeadUpdate(Broadcast(s1, d.Node, "dead", d, FALSE), d)

-----------------------------------------------------------------------------
\* The timeout callback fn built in suspectNode (lines 1395-1416).

\* under the lock: is the node still suspect since changeTime?
TimeoutHolds(st, c) ==
    /\ c.node \in DOMAIN st.nodeMap
    /\ st.nodeMap[c.node].State = StateSuspect
    /\ st.nodeMap[c.node].StateChange = c.changeTime

\* variant of TimeoutDeadMsg: the death is announced in the node's own name
TimeoutDeadMsgFromNode(c) ==
    [Incarnation |-> c.inc, Node |-> c.node, From |-> c.node]

\* the dead message the callback builds while it holds the lock
TimeoutDeadMsg(c) == [Incarnation |-> c.inc, Node |-> c.node, From |-> Self]

-----------------------------------------------------------------------------
\* resetNodes

\* moveDeadNodes: entries dead or left for longer than gossipToTheDeadTime
\* are moved behind the others and cut off
Reaped(state) ==
    DeadOrLeft(state) /\ Since(state.StateChange) > config.GossipToTheDeadTime

\* shuffleNodes: every order of the same entries
Shuffles(s) ==
    {p \in [1 .. Len(s) -> SeqToSet(s)] :
        \A i \in 1 .. Len(s) : Cardinality({j \in 1 .. Len(s) : p[j] = s[i]})
                                 = Cardinality({j \in 1 .. Len(s) : s[j] = s[i]})}

\* variant of ResetTable: nothing is reaped
ResetTableNoReap(st) == [st EXCEPT !.numNodes = Len(st.nodes)]

\* variant of ResetTable: the reaped entries stay in the map
ResetTableKeepsMap(st) ==
    LET dead(name) == Reaped(st.nodeMap[name])
        live(name) == ~dead(name)
        kept == SelectSeq(st.nodes, live)
    IN  [st EXCEPT !.nodes = kept, !.numNodes = Len(kept)]

\* resetNodes, lines 674-689, before the shuffle
ResetTable(st) ==
    LET dead(name) == Reaped(st.nodeMap[name])
        live(name) == ~dead(name)
        kept == SelectSeq(st.nodes, live)
        gone == SeqToSet(SelectSeq(st.nodes, dead))
    IN  [st EXCEPT !.nodeMap = [y \in DOMAIN st.nodeMap \ gone |-> st.nodeMap[y]],
                   !.nodes = kept,
                   !.numNodes = Len(kept)]

-----------------------------------------------------------------------------
\* probe

\* variant of ProbeSkips: only the local node is not probed
ProbeSkipsSelf(st, name) == name = Self

\* probe, lines 329-334: the local node and dead nodes are not probed
ProbeSkips(st, name) == name = Self \/ DeadOrLeft(st.nodeMap[name])

\* variant of AdvanceIndex: the probe index stays where it is
AdvanceIndexStays(idx) == idx

\* probe, line 338: m.probeIndex++
AdvanceIndex(idx) == idx + 1

\* probe, lines 300-347, up to the call of probeNode: every way the scan from
\* probeIndex idx can end, with the table and index it leaves, the node it
\* picked ("" for none), the number of times the index wrapped and numCheck
RECURSIVE ProbeScan(_, _, _, _)
ProbeScan(st, idx, numCheck, wraps) ==
    IF numCheck >= Len(st.nodes)
    THEN {[st |-> st, probeIndex |-> idx, target |-> "", wraps |-> wraps,
           numCheck |-> numCheck]}
    ELSE IF idx >= Len(st.nodes)
    THEN UNION {ProbeScan([ResetTable(st) EXCEPT !.nodes = p], 0, numCheck + 1,
                          wraps + 1) : p \in Shuffles(ResetTable(st).nodes)}
    ELSE IF ProbeSkips(st, st.nodes[idx + 1])
    THEN ProbeScan(st, AdvanceIndex(idx), numCheck + 1, wraps)
    ELSE {[st |-> st, probeIndex |-> AdvanceIndex(idx),
           target |-> st.nodes[idx + 1], wraps |-> wraps,
           numCheck |-> numCheck]}

\* what probeNode can end in: an ack in time, an error of the local send, or
\* no ack at all
ProbeResults == {"ack", "sendError", "failed"}

\* awarenessDelta of a failed probe, lines 608-615
ProbeDeltas == {1}

\* probeNode, lines 375-623, for the network's answer result
ProbeNode(st, name, result, delta) ==
    LET s0 == Emit(st, [kind |-> "probeNode", node |-> name, result |-> result])
        node == st.nodeMap[name]
    IN  IF result = "ack" THEN [s0 EXCEPT !.score = ApplyDelta(@, 0 - 1)]
        ELSE IF result = "sendError" THEN s0
        ELSE LET s1 == SuspectNode(s0, [Incarnation |-> node.Incarnation,
                                        Node |-> name, From |-> Self])
             IN  [s1 EXCEPT !.score = ApplyDelta(@, delta)]

-----------------------------------------------------------------------------
\* schedule and deschedule

Kinds == {"probe", "pushPull", "gossip"}

\* schedule, lines 197, 205 and 211: the periodic tasks the configuration asks for
Starts(kind) ==
    IF kind = "probe" THEN config.ProbeInterval > 0
    ELSE IF kind = "pushPull" THEN config.PushPullInterval > 0
    ELSE config.GossipInterval > 0 /\ config.GossipNodes > 0

\* schedule, lines 197-215: the tickers appended to m.tickers; pushPullTrigger
\* has none
NewTickers ==
    (IF Starts("probe") THEN <<"probe">> ELSE <<>>)
        \o (IF Starts("gossip") THEN <<"gossip">> ELSE <<>>)

-----------------------------------------------------------------------------
\* Actions.

\* the successor state is the one a handler returned
Effect(st) ==
    /\ nodeMap' = st.nodeMap
    /\ nodes' = st.nodes
    /\ numNodes' = st.numNodes
    /\ nodeTimers' = st.nodeTimers
    /\ detached' = st.detached
    /\ callbacks' = st.callbacks
    /\ incarnation' = st.incarnation
    /\ score' = st.score
    /\ leave' = st.leave
    /\ out' = st.out

Commit(st, name) ==
    /\ Effect(st)
    /\ op' = name
    /\ UNCHANGED <<config, now, probeVars, schedVars, ackVars, lockVars>>

\* the network delivers one more message
Deliver ==
    /\ delivered < MaxMsgs
    /\ delivered' = delivered + 1

\* randomOffset(n), drawn only when aliveNode inserts a new entry
Offsets(name) ==
    IF name \in DOMAIN nodeMap \/ Len(nodes) = 0 THEN {0}
    ELSE 0 .. (Len(nodes) - 1)

\* the sequence numbers nextSeqNo() gives
Seqs == 1 .. MaxSeq

\* no probeNode call is in progress
Idle == [pc |-> "idle", end |-> "", seqNo |-> 0, node |-> <<>>,
         awarenessDelta |-> 0, expectedNacks |-> 0]

\* nothing was sent or received for a sequence number
NoTraffic == [pinged |-> FALSE, relays |-> 0, acks |-> 0, nacks |-> 0,
              ackFn |-> 0, complete |-> FALSE, sentinel |-> FALSE]

\* nothing was probed and schedule() was not called yet
Unscheduled ==
    /\ probeIndex = 0
    /\ round = [targets |-> <<>>, grown |-> FALSE]
    /\ tickers = <<>>
    /\ stopTick = 0
    /\ stopChs = <<>>
    /\ tasks = {}
    /\ seqNo = 0
    /\ ackHandlers = {}
    /\ ackCh = [q \in Seqs |-> <<>>]
    /\ nackCh = [q \in Seqs |-> 0]
    /\ reapers = [q \in Seqs |-> "none"]
    /\ acking = {}
    /\ probing = Idle
    /\ net = [q \in Seqs |-> NoTraffic]
    /\ nodeLock = ""
    /\ notifying = <<>>
    /\ eventCh = <<>>

\* setAlive at construction: aliveNode about the local node with bootstrap set
SelfAlive ==
    [Incarnation |-> 1, Node |-> Self, Addr |-> "10.0.0.1", Port |-> 7946,
     Meta |-> "m1", Vsn |-> <<1, 5, 2, 0, 0, 0>>]

Init ==
    /\ config = SmallConfig
    /\ now = 0
    /\ delivered = 0
    /\ op = "setAlive"
    /\ Unscheduled
    /\ LET st == AliveNode([nodeMap |-> <<>>, nodes |-> <<>>, numNodes |-> 0,
                            nodeTimers |-> <<>>, detached |-> {}, callbacks |-> {},
                            incarnation |-> 1, score |-> 0, leave |-> FALSE,
                            out |-> <<>>],
                           SelfAlive, FALSE, TRUE, 0)
       IN  /\ nodeMap = st.nodeMap
           /\ nodes = st.nodes
           /\ numNodes = st.numNodes
           /\ nodeTimers = st.nodeTimers
           /\ detached = st.detached
           /\ callbacks = st.callbacks
           /\ incarnation = st.incarnation
           /\ score = st.score
           /\ leave = st.leave
           /\ out = st.out

\* an alive message from the network
RecvAlive(a, offset) ==
    /\ Deliver
    /\ Commit(AliveNode(St, a, FALSE, FALSE, offset), "aliveNode")

\* a suspect message from the network
RecvSuspect(s) == Deliver /\ Commit(SuspectNode(St, s), "suspectNode")

\* a dead message from the network
RecvDead(d) == Deliver /\ Commit(DeadNode(St, d), "deadNode")

\* mergeState: one record of a remote snapshot
PushNodeStates ==
    [Name : Names, Addr : {"10.0.0.2"}, Port : Ports, Meta : {"m1"},
     Incarnation : Incarnations,
     State : {StateAlive, StateSuspect, StateDead, StateLeft}, Vsn : Vsns]

MergeApplyDead(st, r, offset) ==
    IF r.State = StateAlive
    THEN AliveNode(st, [Incarnation |-> r.Incarnation, Node |-> r.Name,
                        Addr |-> r.Addr, Port |-> r.Port, Meta |-> r.Meta,
                        Vsn |-> r.Vsn], FALSE, FALSE, offset)
    ELSE IF r.State = StateLeft
    THEN DeadNode(st, [Incarnation |-> r.Incarnation, Node |-> r.Name,
                       From |-> r.Name])
    ELSE IF r.State = StateDead
    THEN DeadNode(st, [Incarnation |-> r.Incarnation, Node |-> r.Name,
                       From |-> Self])
    ELSE SuspectNode(st, [Incarnation |-> r.Incarnation, Node |-> r.Name,
                          From |-> Self])

MergeApply(st, r, offset) ==
    IF r.State = StateAlive
    THEN AliveNode(st, [Incarnation |-> r.Incarnation, Node |-> r.Name,
                        Addr |-> r.Addr, Port |-> r.Port, Meta |-> r.Meta,
                        Vsn |-> r.Vsn], FALSE, FALSE, offset)
    ELSE IF r.State = StateLeft
    THEN DeadNode(st, [Incarnation |-> r.Incarnation, Node |-> r.Name,
                       From |-> r.Name])
    ELSE SuspectNode(st, [Incarnation |-> r.Incarnation, Node |-> r.Name,
                          From |-> Self])

MergeState(r, offset) ==
    /\ Deliver
    /\ Commit(MergeApply(St, r, offset), "mergeState")

\* Leave: set the leave flag and declare the local node dead, from itself
LeaveApply(st) ==
    LET s1 == [st EXCEPT !.leave = TRUE]
    IN  IF Self \in DOMAIN st.nodeMap
        THEN DeadNode(s1, [Incarnation |-> st.nodeMap[Self].Incarnation,
                           Node |-> Self, From |-> Self])
        ELSE s1

Leave ==
    /\ ~leave
    /\ Commit(LeaveApply(St), "leave")
    /\ UNCHANGED delivered

\* resetNodes, called by probe when the probe index wraps
ResetNodes ==
    \E p \in Shuffles(ResetTable(St).nodes) :
        /\ Commit([ResetTable(St) EXCEPT !.nodes = p], "resetNodes")
        /\ UNCHANGED delivered

\* the time.Timer of a suspicion in nodeTimers expires
TimerFire(name) ==
    /\ name \in DOMAIN nodeTimers
    /\ nodeTimers[name].timer = "armed"
    /\ now >= nodeTimers[name].deadline
    /\ Commit([St EXCEPT !.nodeTimers[name].timer = "fired",
                         !.nodeTimers[name].calls = @ + 1,
                         !.callbacks = @ \cup {Callback(nodeTimers[name])}],
              "timer")
    /\ UNCHANGED delivered

\* the time.Timer of a suspicion already deleted from nodeTimers expires
DetachedFire(t) ==
    /\ t \in detached
    /\ now >= t.deadline
    /\ Commit([St EXCEPT !.detached = @ \ {t},
                         !.callbacks = @ \cup {Callback(t)}],
              "timer")
    /\ UNCHANGED delivered

\* fn, lines 1398-1404: check the node under the lock
TimeoutCheck(c) ==
    /\ c \in callbacks
    /\ c.pc = "check"
    /\ Commit([St EXCEPT !.callbacks =
                  IF TimeoutHolds(St, c)
                  THEN (@ \ {c}) \cup {[c EXCEPT !.pc = "dead",
                                          !.inc = nodeMap[c.node].Incarnation]}
                  ELSE @ \ {c}],
              "timeoutCheck")
    /\ UNCHANGED delivered

\* fn, line 1414: m.deadNode(d)
TimeoutDead(c) ==
    /\ c \in callbacks
    /\ c.pc = "dead"
    /\ Commit(DeadNode([St EXCEPT !.callbacks = @ \ {c}], TimeoutDeadMsg(c)),
              "timeoutDead")
    /\ UNCHANGED delivered

\* the clock advances
Tick(limit) ==
    /\ now < limit
    /\ now' = now + 1
    /\ op' = "tick"
    /\ out' = <<>>
    /\ UNCHANGED <<config, nodeMap, nodes, numNodes, nodeTimers, detached,
                   callbacks, incarnation, score, leave, delivered, probeVars,
                   schedVars, ackVars, lockVars>>

Next ==
    \/ \E a \in AliveMsgs : \E offset \in Offsets(a.Node) : RecvAlive(a, offset)
    \/ \E s \in SuspectMsgs : RecvSuspect(s)
    \/ \E d \in DeadMsgs : RecvDead(d)
    \/ \E r \in PushNodeStates : \E offset \in Offsets(r.Name) : MergeState(r, offset)
    \/ Leave
    \/ ResetNodes
    \/ \E name \in Names : TimerFire(name)
    \/ \E t \in detached : DetachedFire(t)
    \/ \E c \in callbacks : TimeoutCheck(c)
    \/ \E c \in callbacks : TimeoutDead(c)
    \/ Tick(MaxTime)

Spec == Init /\ [][Next]_vars

-----------------------------------------------------------------------------
\* A cluster of three, A, B and C, all alive: the messages are about B and come
\* from any of the three, so that suspicions of B collect confirmations.

PeerAlive(name) ==
    [Incarnation |-> 1, Node |-> name, Addr |-> "10.0.0.2", Port |-> 7946,
     Meta |-> "m1", Vsn |-> <<1, 5, 2, 0, 0, 0>>]

ClusterInit ==
    /\ config = ClusterConfig
    /\ now = 0
    /\ delivered = 0
    /\ op = "aliveNode"
    /\ Unscheduled
    /\ LET s0 == AliveNode([nodeMap |-> <<>>, nodes |-> <<>>, numNodes |-> 0,
                            nodeTimers |-> <<>>, detached |-> {}, callbacks |-> {},
                            incarnation |-> 1, score |-> 0, leave |-> FALSE,
                            out |-> <<>>],
                           SelfAlive, FALSE, TRUE, 0)
           s1 == AliveNode(s0, PeerAlive("B"), FALSE, FALSE, 0)
           st == AliveNode([s1 EXCEPT !.out = <<>>], PeerAlive("C"), FALSE, FALSE, 0)
       IN  /\ nodeMap = st.nodeMap
           /\ nodes = st.nodes
           /\ numNodes = st.numNodes
           /\ nodeTimers = st.nodeTimers
           /\ detached = st.detached
           /\ callbacks = st.callbacks
           /\ incarnation = st.incarnation
           /\ score = st.score
           /\ leave = st.leave
           /\ out = st.out

ClusterAlives == {a \in AliveMsgs : a.Node = "B" /\ a.Meta = "m1"}
ClusterSuspects == [Incarnation : Incarnations, Node : {"B"}, From : ClusterNames]
ClusterDeads == [Incarnation : Incarnations, Node : {"B"}, From : ClusterNames]

ClusterNext ==
    \/ \E a \in ClusterAlives : RecvAlive(a, 0)
    \/ \E s \in ClusterSuspects : RecvSuspect(s)
    \/ \E d \in ClusterDeads : RecvDead(d)
    \/ \E name \in ClusterNames : TimerFire(name)
    \/ \E t \in detached : DetachedFire(t)
    \/ \E c \in callbacks : TimeoutCheck(c)
    \/ \E c \in callbacks : TimeoutDead(c)
    \/ Tick(MaxClusterTime)

SpecCluster == ClusterInit /\ [][ClusterNext]_vars

-----------------------------------------------------------------------------
\* The same cluster under every small DeadNodeReclaimTime, zero (the name of a
\* dead node cannot be reclaimed) included.

\* the longest DeadNodeReclaimTime
MaxReclaim == 2

ReclaimConfigs ==
    {[ClusterConfig EXCEPT !.DeadNodeReclaimTime = r] : r \in 0 .. MaxReclaim}

\* the state is the one a handler returned
Start(st) ==
    /\ nodeMap = st.nodeMap
    /\ nodes = st.nodes
    /\ numNodes = st.numNodes
    /\ nodeTimers = st.nodeTimers
    /\ detached = st.detached
    /\ callbacks = st.callbacks
    /\ incarnation = st.incarnation
    /\ score = st.score
    /\ leave = st.leave
    /\ out = st.out

\* a memberlist before setAlive
NewMemberlist ==
    [nodeMap |-> <<>>, nodes |-> <<>>, numNodes |-> 0, nodeTimers |-> <<>>,
     detached |-> {}, callbacks |-> {}, incarnation |-> 1, score |-> 0,
     leave |-> FALSE, out |-> <<>>]

ReclaimInit ==
    /\ config \in ReclaimConfigs
    /\ now = 0
    /\ delivered = 0
    /\ op = "aliveNode"
    /\ Unscheduled
    /\ LET s0 == AliveNode(NewMemberlist, SelfAlive, FALSE, TRUE, 0)
           s1 == AliveNode(s0, PeerAlive("B"), FALSE, FALSE, 0)
       IN  Start(AliveNode([s1 EXCEPT !.out = <<>>], PeerAlive("C"), FALSE, FALSE, 0))

SpecReclaim == ReclaimInit /\ [][ClusterNext]_vars

-----------------------------------------------------------------------------
\* A suspicion on its own: newSuspicion with any small k, min and max, then
\* Confirm calls from several peers while the clock runs.

\* the largest number of confirmations a suspicion expects
MaxK == 3
\* the longest maximum timeout of a suspicion
MaxTimeout == 4

SuspicionParams ==
    {p \in [k : -1 .. MaxK, min : 1 .. 2, max : 1 .. MaxTimeout] : p.max >= p.min}

Confirmers == {"A", "C", "D", "E"}

SuspicionInit ==
    /\ config = SmallConfig
    /\ now = 0
    /\ delivered = 0
    /\ op = "newSuspicion"
    /\ Unscheduled
    /\ nodeMap = <<>>
    /\ nodes = <<>>
    /\ numNodes = 0
    /\ detached = {}
    /\ callbacks = {}
    /\ incarnation = 1
    /\ score = 0
    /\ leave = FALSE
    /\ out = <<>>
    /\ \E p \in SuspicionParams :
           nodeTimers = [name \in {"B"} |->
                            NewSuspicion("A", p.k, p.min, p.max, "B", 0)]

\* s.Confirm(from) on the suspicion of B; out records what it returned
SuspicionConfirm(from) ==
    LET t == nodeTimers["B"]
        ok == ConfirmAccepts(t, from)
    IN  /\ nodeTimers' = IF ok THEN [nodeTimers EXCEPT !["B"] = ConfirmTimer(t, from)]
                         ELSE nodeTimers
        /\ callbacks' = IF ConfirmDispatches(t, from)
                        THEN callbacks \cup {Callback(t)} ELSE callbacks
        /\ op' = "confirm"
        /\ out' = <<[kind |-> "confirm", from |-> from, ok |-> ok]>>
        /\ UNCHANGED <<config, nodeMap, nodes, numNodes, detached, incarnation,
                       score, leave, now, delivered, probeVars, schedVars, ackVars, lockVars>>

SuspicionNext ==
    \/ \E from \in Confirmers : SuspicionConfirm(from)
    \/ TimerFire("B")
    \/ Tick(MaxTime)

SpecSuspicion == SuspicionInit /\ [][SuspicionNext]_vars

-----------------------------------------------------------------------------
\* The probe loop of A, which knows B, while a third node, C, joins and B is
\* declared dead.

\* one call of probe(): the scan for the next target and probeNode on it
Probe(result, delta) ==
    \E r \in ProbeScan(St, probeIndex, 0, 0) :
        LET targets == IF r.wraps > 0 THEN <<>> ELSE round.targets
            grown == IF r.wraps > 0 THEN FALSE ELSE round.grown
        IN  /\ Effect(IF r.target = "" THEN r.st
                      ELSE ProbeNode(r.st, r.target, result, delta))
            /\ probeIndex' = r.probeIndex
            /\ round' = [targets |-> IF r.target = "" THEN targets
                                     ELSE Append(targets, r.target),
                         grown |-> grown]
            /\ op' = "probe"
            /\ UNCHANGED <<config, now, delivered, schedVars, ackVars, lockVars>>

\* an alive message from the network while the probe loop runs
ProbeJoin(a, offset) ==
    /\ Deliver
    /\ Effect(AliveNode(St, a, FALSE, FALSE, offset))
    /\ round' = [round EXCEPT !.grown = @ \/ a.Node \notin DOMAIN nodeMap]
    /\ op' = "aliveNode"
    /\ UNCHANGED <<config, now, probeIndex, schedVars, ackVars, lockVars>>

ProbeInit ==
    /\ config = ClusterConfig
    /\ now = 0
    /\ delivered = 0
    /\ op = "aliveNode"
    /\ Unscheduled
    /\ LET s0 == AliveNode(NewMemberlist, SelfAlive, FALSE, TRUE, 0)
       IN  Start(AliveNode([s0 EXCEPT !.out = <<>>], PeerAlive("B"), FALSE, FALSE, 0))

\* the dead messages of this cluster: C reports that B is dead
ProbeDeads == {d \in ClusterDeads : d.From = "C" /\ d.Incarnation = 1}

ProbeNext ==
    \/ \E result \in ProbeResults : \E delta \in ProbeDeltas : Probe(result, delta)
    \/ \E offset \in Offsets("C") : ProbeJoin(PeerAlive("C"), offset)
    \/ \E d \in ProbeDeads : RecvDead(d)
    \/ Tick(MaxTime)

SpecProbe == ProbeInit /\ [][ProbeNext]_vars

\* The probe loop of A, which knows B, while B is declared dead and A leaves:
\* the table runs down to the local node and dead entries, and to nothing.
SelectNext ==
    \/ \E result \in ProbeResults : \E delta \in ProbeDeltas : Probe(result, delta)
    \/ \E d \in ProbeDeads : RecvDead(d)
    \/ Leave
    \/ Tick(MaxTime)

SpecSelect == ProbeInit /\ [][SelectNext]_vars

-----------------------------------------------------------------------------
\* The scheduler of the local node alone, under every choice of enabled and
\* disabled intervals: schedule and deschedule are called in any order while
\* the goroutines they started run.

ScheduleConfigs ==
    {[ProbeInterval |-> p, PushPullInterval |-> pp, GossipInterval |-> g,
      GossipNodes |-> gn] @@ SmallConfig : p, pp, g, gn \in 0 .. 1}

ScheduleInit ==
    /\ config \in ScheduleConfigs
    /\ now = 0
    /\ delivered = 0
    /\ op = "setAlive"
    /\ Unscheduled
    /\ Start(AliveNode(NewMemberlist, SelfAlive, FALSE, TRUE, 0))

\* pushPull, lines 765-784: nothing happens without an alive peer; otherwise
\* the exchange fails or a record of the peer's state is merged
PushPull(st) ==
    IF \A n \in DOMAIN st.nodeMap : n = Self \/ st.nodeMap[n].State # StateAlive
    THEN {st}
    ELSE {st} \cup {MergeApply(st, r, 0) : r \in PushNodeStates}

\* schedule(), lines 179-222
Schedule ==
    /\ Len(tickers) > 0 \/ Len(stopChs) < MaxSchedules
    /\ IF Len(tickers) > 0
       THEN UNCHANGED schedVars
       ELSE LET stopCh == Len(stopChs) + 1
            IN  /\ stopChs' = Append(stopChs, FALSE)
                /\ tickers' = NewTickers
                /\ tasks' = tasks \cup {[kind |-> kind, stop |-> stopCh,
                                         pc |-> "stagger"] :
                                            kind \in {k \in Kinds : Starts(k)}}
                /\ stopTick' = IF Len(NewTickers) > 0 THEN stopCh ELSE stopTick
    /\ Effect(St)
    /\ op' = "schedule"
    /\ UNCHANGED <<config, now, delivered, probeVars, ackVars, lockVars>>

\* deschedule(), lines 278-296; closing a closed channel panics
Deschedule ==
    /\ IF Len(tickers) = 0
       THEN UNCHANGED schedVars /\ out' = <<>>
       ELSE IF stopChs[stopTick]
       THEN UNCHANGED schedVars /\ out' = <<[kind |-> "panic"]>>
       ELSE /\ stopChs' = [stopChs EXCEPT ![stopTick] = TRUE]
            /\ tickers' = <<>>
            /\ out' = <<>>
            /\ UNCHANGED <<stopTick, tasks>>
    /\ op' = "deschedule"
    /\ UNCHANGED <<config, nodeMap, nodes, numNodes, nodeTimers, detached,
                   callbacks, incarnation, score, leave, now, delivered,
                   probeVars, ackVars, lockVars>>

\* triggerFunc, lines 229-234, and pushPullTrigger, lines 255-260: the random
\* stagger has passed
TaskWake(t) ==
    /\ t \in tasks
    /\ t.pc = "stagger"
    /\ tasks' = (tasks \ {t}) \cup {[t EXCEPT !.pc = "loop"]}
    /\ op' = "wake"
    /\ out' = <<>>
    /\ UNCHANGED <<config, nodeMap, nodes, numNodes, nodeTimers, detached,
                   callbacks, incarnation, score, leave, now, delivered,
                   probeVars, tickers, stopTick, stopChs, ackVars, lockVars>>

\* triggerFunc, lines 235-238, and pushPullTrigger, lines 263-269: the select
\* takes the tick (one may be waiting in a stopped ticker's channel) and the
\* task calls probe, gossip or pushPull; gossip only reads the table
TaskFire(t) ==
    /\ t \in tasks
    /\ t.pc = "loop"
    /\ IF t.kind = "probe"
       THEN \E result \in ProbeResults : \E delta \in ProbeDeltas :
                Probe(result, delta)
       ELSE IF t.kind = "pushPull"
       THEN \E st \in PushPull(St) : Commit(st, "pushPull") /\ UNCHANGED delivered
       ELSE Commit(St, "gossip") /\ UNCHANGED delivered

\* lines 232-233, 239-240, 258-259 and 270-271: the select takes the closed
\* stop channel and the goroutine returns
TaskExit(t) ==
    /\ t \in tasks
    /\ stopChs[t.stop]
    /\ tasks' = tasks \ {t}
    /\ op' = "exit"
    /\ out' = <<>>
    /\ UNCHANGED <<config, nodeMap, nodes, numNodes, nodeTimers, detached,
                   callbacks, incarnation, score, leave, now, delivered,
                   probeVars, tickers, stopTick, stopChs, ackVars, lockVars>>

AllTasks == [kind : Kinds, stop : 1 .. MaxSchedules, pc : {"stagger", "loop"}]

ScheduleNext ==
    \/ Schedule
    \/ Deschedule
    \/ \E t \in tasks : TaskWake(t)
    \/ \E t \in tasks : TaskFire(t)
    \/ \E t \in tasks : TaskExit(t)

\* a goroutine whose stop channel is closed is not held back for ever: the
\* channel stays ready in its select
SpecSchedule ==
    /\ ScheduleInit
    /\ [][ScheduleNext]_vars
    /\ \A t \in AllTasks : WF_vars(TaskExit(t))

-----------------------------------------------------------------------------
\* An awareness object on its own: newAwareness with any small max, then
\* ApplyDelta with any delta and ScaleTimeout with any timeout that is not
\* negative.

AwarenessConfigs ==
    {[SmallConfig EXCEPT !.AwarenessMaxMultiplier = max] : max \in 1 .. MaxAwareness}

Deltas == MinInt .. MaxInt

Timeouts == 0 .. MaxInt

AwarenessInit ==
    /\ config \in AwarenessConfigs
    /\ now = 0
    /\ delivered = 0
    /\ op = "newAwareness"
    /\ Unscheduled
    /\ Start(NewMemberlist)

\* a.ApplyDelta(delta)
AwarenessApplyDelta(delta) ==
    /\ Commit([NewMemberlist EXCEPT
                  !.score = ApplyDelta(score, delta),
                  !.out = <<[kind |-> "applyDelta", delta |-> delta]>>],
              "applyDelta")
    /\ UNCHANGED delivered

\* a.ScaleTimeout(timeout); out records what it returned
AwarenessScaleTimeout(timeout) ==
    /\ Commit([NewMemberlist EXCEPT
                  !.score = score,
                  !.out = <<[kind |-> "scaleTimeout", timeout |-> timeout,
                             scaled |-> ScaleTimeout(score, timeout)]>>],
              "scaleTimeout")
    /\ UNCHANGED delivered

AwarenessNext ==
    \/ \E delta \in Deltas : AwarenessApplyDelta(delta)
    \/ \E timeout \in Timeouts : AwarenessScaleTimeout(timeout)

SpecAwareness == AwarenessInit /\ [][AwarenessNext]_vars

-----------------------------------------------------------------------------
\* The local node alone, under every small AwarenessMaxMultiplier, receiving
\* messages about itself.

SelfAlives == {a \in AliveMsgs : a.Node = Self}
SelfSuspects == {s \in SuspectMsgs : s.Node = Self}
SelfDeads == {d \in DeadMsgs : d.Node = Self}

SelfInit ==
    /\ config \in AwarenessConfigs
    /\ now = 0
    /\ delivered = 0
    /\ op = "setAlive"
    /\ Unscheduled
    /\ Start(AliveNode(NewMemberlist, SelfAlive, FALSE, TRUE, 0))

SelfNext ==
    \/ \E a \in SelfAlives : RecvAlive(a, 0)
    \/ \E s \in SelfSuspects : RecvSuspect(s)
    \/ \E d \in SelfDeads : RecvDead(d)
    \/ Leave

SpecSelf == SelfInit /\ [][SelfNext]_vars

-----------------------------------------------------------------------------
\* One call of probeNode step by step, with the ack handlers it registers, the
\* reaper of each handler, the acks and nacks of the network, and alive
\* messages about the peers that arrive in between.  A knows B and C, and
\* earlier probes left it any awareness score.

\* IndirectChecks and DisableTcpPings of the configuration
RoundConfigs ==
    {[IndirectChecks |-> k, DisableTcpPings |-> FALSE] @@ ClusterConfig :
        k \in 0 .. MaxIndirect}

\* lines 399-400: the buffer size of ackCh and of nackCh
ChanCap == config.IndirectChecks + 1

\* select { case ch <- v: default: } on a channel of ackMessages, of which the
\* model keeps the Complete field
TrySend(ch, v) == IF Len(ch) < ChanCap THEN Append(ch, v) ELSE ch

\* lines 510-516: the filter of the indirect peers
IndirectSkips(st, n, target) ==
    \/ n = Self
    \/ n = target
    \/ st.nodeMap[n].State # StateAlive

\* kRandomNodes: up to k entries the filter lets through
KRandomNodes(st, k, target) ==
    {S \in SUBSET {n \in DOMAIN st.nodeMap : ~IndirectSkips(st, n, target)} :
        Cardinality(S) <= k}

\* lines 531-534: the peers asked for a nack are those with PMax >= 4
ExpectedNacks(st, kNodes) ==
    Cardinality({n \in kNodes : st.nodeMap[n].Vsn[2] >= 4})

\* line 558: the stream fallback is tried
FallbackStarts(node) == ~config.DisableTcpPings /\ node.Vsn[2] >= 3

\* lines 608-615: the penalty of a failed probe
FailDeltaNoNacks(expectedNacks, nackCount) ==
    IF expectedNacks > 0 THEN expectedNacks ELSE 1

FailDelta(expectedNacks, nackCount) ==
    IF expectedNacks > 0
    THEN (IF nackCount < expectedNacks THEN expectedNacks - nackCount ELSE 0)
    ELSE 1

\* a step of the round leaves the rest alone
RoundStep(name) ==
    /\ op' = name
    /\ UNCHANGED <<config, now, delivered, schedVars, lockVars>>

\* a return of probeNode: the deferred ApplyDelta of lines 419-421
ReturnNoDelta(st, end) ==
    /\ Effect(st)
    /\ probing' = [probing EXCEPT !.pc = "idle", !.end = end]

Return(st, end) ==
    /\ Effect([st EXCEPT !.score = ApplyDelta(@, probing.awarenessDelta)])
    /\ probing' = [probing EXCEPT !.pc = "idle", !.end = end]

\* probe, lines 300-347, and probeNode up to line 401: the target is chosen and
\* copied, the sequence number is taken and setProbeChannels registers the
\* handler and arms its reaper
RoundStart ==
    /\ probing.pc = "idle"
    /\ seqNo < MaxSeq
    /\ \E r \in ProbeScan(St, probeIndex, 0, 0) :
        LET targets == IF r.wraps > 0 THEN <<>> ELSE round.targets
            grown == IF r.wraps > 0 THEN FALSE ELSE round.grown
            q == seqNo + 1
        IN  /\ Effect(r.st)
            /\ probeIndex' = r.probeIndex
            /\ round' = [targets |-> IF r.target = "" THEN targets
                                     ELSE Append(targets, r.target),
                         grown |-> grown]
            /\ IF r.target = ""
               THEN UNCHANGED ackVars
               ELSE /\ seqNo' = q
                    /\ ackHandlers' = ackHandlers \cup {q}
                    /\ reapers' = [reapers EXCEPT ![q] = "armed"]
                    /\ probing' = [pc |-> "send", end |-> "", seqNo |-> q,
                                   node |-> r.st.nodeMap[r.target],
                                   awarenessDelta |-> 0, expectedNacks |-> 0]
                    /\ UNCHANGED <<ackCh, nackCh, acking, net>>
    /\ op' = "probe"
    /\ UNCHANGED <<config, now, delivered, schedVars, lockVars>>

\* variant of SendLocalError: every send error is taken for a remote one
SendLocalErrorGoesOn ==
    /\ probing.pc = "send"
    /\ Effect(St)
    /\ probing' = [probing EXCEPT !.pc = "indirect"]
    /\ RoundStep("sendLocalError")
    /\ UNCHANGED <<probeVars, seqNo, ackHandlers, ackCh, nackCh, reapers, acking, net>>

\* lines 423-460, a send that fails locally: probeNode returns
SendLocalError ==
    /\ probing.pc = "send"
    /\ Return(St, "localError")
    /\ RoundStep("sendLocalError")
    /\ UNCHANGED <<probeVars, seqNo, ackHandlers, ackCh, nackCh, reapers, acking, net>>

\* lines 426 and 454: failedRemote(err), goto HANDLE_REMOTE_FAILURE
SendRemoteError ==
    /\ probing.pc = "send"
    /\ Effect(St)
    /\ probing' = [probing EXCEPT !.pc = "indirect"]
    /\ RoundStep("sendRemoteError")
    /\ UNCHANGED <<probeVars, seqNo, ackHandlers, ackCh, nackCh, reapers, acking, net>>

\* lines 423-469: the ping is sent and awarenessDelta becomes -1
SendPing ==
    /\ probing.pc = "send"
    /\ Effect(St)
    /\ probing' = [probing EXCEPT !.pc = "wait1", !.awarenessDelta = 0 - 1]
    /\ net' = [net EXCEPT ![probing.seqNo].pinged = TRUE]
    /\ RoundStep("sendPing")
    /\ UNCHANGED <<probeVars, seqNo, ackHandlers, ackCh, nackCh, reapers, acking>>

\* lines 475-490: the first select receives from ackCh
Wait1Recv ==
    /\ probing.pc = "wait1"
    /\ ackCh[probing.seqNo] # <<>>
    /\ ackCh' = [ackCh EXCEPT ![probing.seqNo] = Tail(@)]
    /\ IF Head(ackCh[probing.seqNo])
       THEN Return(St, "ack")
       ELSE Effect(St) /\ probing' = [probing EXCEPT !.pc = "requeue"]
    /\ RoundStep("wait1Recv")
    /\ UNCHANGED <<probeVars, seqNo, ackHandlers, nackCh, reapers, acking, net>>

\* lines 491-503: time.After(ProbeTimeout) fires first
Wait1Timeout ==
    /\ probing.pc = "wait1"
    /\ Effect(St)
    /\ probing' = [probing EXCEPT !.pc = "indirect"]
    /\ RoundStep("wait1Timeout")
    /\ UNCHANGED <<probeVars, seqNo, ackHandlers, ackCh, nackCh, reapers, acking, net>>

\* line 489: ackCh <- v, a send that waits for room in the buffer
Requeue ==
    /\ probing.pc = "requeue"
    /\ Len(ackCh[probing.seqNo]) < ChanCap
    /\ ackCh' = [ackCh EXCEPT ![probing.seqNo] = Append(@, FALSE)]
    /\ Effect(St)
    /\ probing' = [probing EXCEPT !.pc = "indirect"]
    /\ RoundStep("requeue")
    /\ UNCHANGED <<probeVars, seqNo, ackHandlers, nackCh, reapers, acking, net>>

\* lines 506-572: the indirect pings go out to kNodes
Indirect(kNodes) ==
    /\ probing.pc = "indirect"
    /\ Effect(St)
    /\ probing' = [probing EXCEPT !.pc = "wait2",
                                  !.expectedNacks = ExpectedNacks(St, kNodes)]
    /\ net' = [net EXCEPT ![probing.seqNo].relays = Cardinality(kNodes)]
    /\ RoundStep("indirect")
    /\ UNCHANGED <<probeVars, seqNo, ackHandlers, ackCh, nackCh, reapers, acking>>

\* lines 581-586: the second select, which has no timeout
Wait2Recv ==
    /\ probing.pc = "wait2"
    /\ ackCh[probing.seqNo] # <<>>
    /\ ackCh' = [ackCh EXCEPT ![probing.seqNo] = Tail(@)]
    /\ IF Head(ackCh[probing.seqNo])
       THEN Return(St, "ack")
       ELSE Effect(St) /\ probing' = [probing EXCEPT !.pc = "fallback"]
    /\ RoundStep("wait2Recv")
    /\ UNCHANGED <<probeVars, seqNo, ackHandlers, nackCh, reapers, acking, net>>

\* lines 558-572 and 592-597: fallbackCh is drained once the stream ping is over
Fallback(didContact) ==
    /\ probing.pc = "fallback"
    /\ didContact => FallbackStarts(probing.node)
    /\ IF didContact
       THEN Return(St, "contact")
       ELSE Effect(St) /\ probing' = [probing EXCEPT !.pc = "fail"]
    /\ RoundStep("fallback")
    /\ UNCHANGED <<probeVars, seqNo, ackHandlers, ackCh, nackCh, reapers, acking, net>>

\* lines 608-622 and the deferred ApplyDelta
Fail ==
    /\ probing.pc = "fail"
    /\ LET delta == FailDelta(probing.expectedNacks, nackCh[probing.seqNo])
           s == [Incarnation |-> probing.node.Incarnation,
                 Node |-> probing.node.Name, From |-> Self]
           st == SuspectNode(St, s)
       IN  /\ Effect([st EXCEPT !.score = ApplyDelta(@, delta)])
           /\ probing' = [probing EXCEPT !.pc = "idle", !.end = "suspect",
                                         !.awarenessDelta = delta]
    /\ RoundStep("fail")
    /\ UNCHANGED <<probeVars, seqNo, ackHandlers, ackCh, nackCh, reapers, acking, net>>

\* invokeAckHandler, lines 1009-1015: an ack arrives, its entry is looked up and
\* deleted under ackLock
AckArriveKeeps(q) ==
    /\ net[q].acks < MaxAcks
    /\ q \in ackHandlers => net[q].pinged \/ net[q].relays > 0
    /\ net' = [net EXCEPT ![q].acks = @ + 1]
    /\ ackHandlers' = ackHandlers
    /\ acking' = IF q \in ackHandlers THEN acking \cup {q} ELSE acking
    /\ Effect(St)
    /\ RoundStep("invokeAckHandler")
    /\ UNCHANGED <<probeVars, seqNo, ackCh, nackCh, reapers, probing>>

AckArrive(q) ==
    /\ net[q].acks < MaxAcks
    /\ q \in ackHandlers => net[q].pinged \/ net[q].relays > 0
    /\ net' = [net EXCEPT ![q].acks = @ + 1]
    /\ ackHandlers' = ackHandlers \ {q}
    /\ acking' = IF q \in ackHandlers THEN acking \cup {q} ELSE acking
    /\ Effect(St)
    /\ RoundStep("invokeAckHandler")
    /\ UNCHANGED <<probeVars, seqNo, ackCh, nackCh, reapers, probing>>

\* invokeAckHandler, lines 1016-1017: ah.timer.Stop() and ah.ackFn of lines
\* 957-962
AckDeliver(q) ==
    /\ q \in acking
    /\ acking' = acking \ {q}
    /\ reapers' = [reapers EXCEPT ![q] = IF @ = "armed" THEN "stopped" ELSE @]
    /\ ackCh' = [ackCh EXCEPT ![q] = TrySend(@, TRUE)]
    /\ net' = [net EXCEPT ![q].ackFn = @ + 1,
                          ![q].complete = @ \/ Len(ackCh[q]) < ChanCap]
    /\ Effect(St)
    /\ RoundStep("ackFn")
    /\ UNCHANGED <<probeVars, seqNo, ackHandlers, nackCh, probing>>

\* variant of NackArrive: the nack takes the entry out of the map
NackArriveRemoves(q) ==
    /\ net[q].nacks < MaxNacks
    /\ net[q].relays > 0
    /\ net' = [net EXCEPT ![q].nacks = @ + 1]
    /\ nackCh' = [nackCh EXCEPT ![q] = IF q \in ackHandlers /\ @ < ChanCap
                                       THEN @ + 1 ELSE @]
    /\ ackHandlers' = ackHandlers \ {q}
    /\ Effect(St)
    /\ RoundStep("invokeNackHandler")
    /\ UNCHANGED <<probeVars, seqNo, ackCh, reapers, acking, probing>>

\* invokeNackHandler, lines 1021-1029, and nackFn of lines 963-968
NackArrive(q) ==
    /\ net[q].nacks < MaxNacks
    /\ net[q].relays > 0
    /\ net' = [net EXCEPT ![q].nacks = @ + 1]
    /\ nackCh' = [nackCh EXCEPT ![q] = IF q \in ackHandlers /\ @ < ChanCap
                                       THEN @ + 1 ELSE @]
    /\ Effect(St)
    /\ RoundStep("invokeNackHandler")
    /\ UNCHANGED <<probeVars, seqNo, ackHandlers, ackCh, reapers, acking, probing>>

\* the reaper of setProbeChannels, lines 977-980: the entry is deleted under
\* ackLock
ReaperDelete(q) ==
    /\ reapers[q] = "armed"
    /\ reapers' = [reapers EXCEPT ![q] = "running"]
    /\ ackHandlers' = ackHandlers \ {q}
    /\ Effect(St)
    /\ RoundStep("reaperDelete")
    /\ UNCHANGED <<probeVars, seqNo, ackCh, nackCh, acking, probing, net>>

\* the reaper of setProbeChannels, lines 981-984: the sentinel is sent
ReaperSend(q) ==
    /\ reapers[q] = "running"
    /\ reapers' = [reapers EXCEPT ![q] = "done"]
    /\ ackCh' = [ackCh EXCEPT ![q] = TrySend(@, FALSE)]
    /\ net' = [net EXCEPT ![q].sentinel = @ \/ Len(ackCh[q]) < ChanCap]
    /\ Effect(St)
    /\ RoundStep("reaperSend")
    /\ UNCHANGED <<probeVars, seqNo, ackHandlers, nackCh, acking, probing>>

\* the alive messages of this cluster: a peer refutes with a new incarnation
RoundAlives == {[PeerAlive(n) EXCEPT !.Incarnation = 2] : n \in {"B", "C"}}

RoundInit ==
    /\ config \in RoundConfigs
    /\ now = 0
    /\ delivered = 0
    /\ op = "aliveNode"
    /\ Unscheduled
    /\ LET s0 == AliveNode(NewMemberlist, SelfAlive, FALSE, TRUE, 0)
           s1 == AliveNode(s0, PeerAlive("B"), FALSE, FALSE, 0)
           s2 == AliveNode([s1 EXCEPT !.out = <<>>], PeerAlive("C"), FALSE, FALSE, 0)
       IN  \E s \in 0 .. (config.AwarenessMaxMultiplier - 1) :
                Start([s2 EXCEPT !.score = s])

\* the steps of the probeNode goroutine after the target is chosen
RoundRun ==
    \/ SendLocalError
    \/ SendRemoteError
    \/ SendPing
    \/ Wait1Recv
    \/ Wait1Timeout
    \/ Requeue
    \/ /\ probing.pc = "indirect"
       /\ \E kNodes \in KRandomNodes(St, config.IndirectChecks, probing.node.Name) :
            Indirect(kNodes)
    \/ Wait2Recv
    \/ \E didContact \in BOOLEAN : Fallback(didContact)
    \/ Fail

RoundNext ==
    \/ RoundStart
    \/ RoundRun
    \/ \E q \in Seqs : AckArrive(q)
    \/ \E q \in Seqs : AckDeliver(q)
    \/ \E q \in Seqs : NackArrive(q)
    \/ \E q \in Seqs : ReaperDelete(q)
    \/ \E q \in Seqs : ReaperSend(q)
    \/ \E a \in RoundAlives : RecvAlive(a, 0)

SpecRound == RoundInit /\ [][RoundNext]_vars

\* The same with the scheduling the Go runtime gives: the probeNode goroutine
\* takes its next step when it can, a time.AfterFunc timer that is armed fires
\* and its function runs to the end, and an invokeAckHandler call that holds the
\* handler goes on to call ackFn.  The stream ping of the fallback is over by its
\* deadline, which is a step of the probeNode goroutine here.
SpecRoundFair ==
    /\ RoundInit
    /\ [][RoundNext]_vars
    /\ WF_vars(RoundRun)
    /\ \A q \in Seqs :
            WF_vars(AckDeliver(q)) /\ WF_vars(ReaperDelete(q)) /\ WF_vars(ReaperSend(q))

-----------------------------------------------------------------------------
\* verifyProtocol on the table of A, which knows B in any state, for remote
\* snapshots of up to MaxRemote records.

\* math.MaxUint8
MaxUint8 == 255

\* lines 824-827: the bounds before any node is looked at
NoBounds ==
    [maxpmin |-> 0, minpmax |-> MaxUint8, maxdmin |-> 0, mindmax |-> MaxUint8]

\* lines 841-855 and 864-878: the version ranges of one node narrow the bounds
NarrowProtocolOnly(b, vsn) ==
    [b EXCEPT !.maxpmin = IF vsn[1] > @ THEN vsn[1] ELSE @,
              !.minpmax = IF vsn[2] < @ THEN vsn[2] ELSE @]

Narrow(b, vsn) ==
    [maxpmin |-> IF vsn[1] > b.maxpmin THEN vsn[1] ELSE b.maxpmin,
     minpmax |-> IF vsn[2] < b.minpmax THEN vsn[2] ELSE b.minpmax,
     maxdmin |-> IF vsn[4] > b.maxdmin THEN vsn[4] ELSE b.maxdmin,
     mindmax |-> IF vsn[5] < b.mindmax THEN vsn[5] ELSE b.mindmax]

\* lines 829-856: the loop over the remote records
RECURSIVE RemoteBounds(_, _)
RemoteBounds(b, remote) ==
    IF remote = <<>> THEN b
    ELSE LET rn == Head(remote)
         IN  RemoteBounds(IF rn.State # StateAlive \/ Len(rn.Vsn) = 0 THEN b
                          ELSE Narrow(b, rn.Vsn),
                          Tail(remote))

\* lines 858-879: the loop over m.nodes
RECURSIVE LocalBounds(_, _, _)
LocalBounds(b, st, names) ==
    IF names = <<>> THEN b
    ELSE LET n == st.nodeMap[Head(names)]
         IN  LocalBounds(IF n.State # StateAlive THEN b ELSE Narrow(b, n.Vsn),
                         st, Tail(names))

\* lines 891 and 897, 908 and 914: a current version pair is out of the bounds
Incompatible(b, pcur, dcur) ==
    \/ pcur < b.maxpmin
    \/ pcur > b.minpmax
    \/ dcur < b.maxdmin
    \/ dcur > b.mindmax

\* verifyProtocol: TRUE when it returns an error
VerifyProtocol(st, remote) ==
    LET b == LocalBounds(RemoteBounds(NoBounds, remote), st, st.nodes)
    IN  \/ \E i \in 1 .. Len(remote) :
                LET v == remote[i].Vsn
                IN  Incompatible(b, IF Len(v) > 0 THEN v[3] ELSE 0,
                                    IF Len(v) > 0 THEN v[6] ELSE 0)
        \/ \E i \in 1 .. Len(st.nodes) :
                LET n == st.nodeMap[st.nodes[i]]
                IN  Incompatible(b, n.Vsn[3], n.Vsn[6])

\* the version tuples (PMin, PMax, PCur, DMin, DMax, DCur) of this cluster
VerifyVsns ==
    {<<1, 2, 2, 0, 1, 0>>, <<2, 3, 3, 0, 1, 1>>, <<1, 3, 2, 0, 1, 1>>,
     <<1, 3, 2, 2, 3, 2>>}

\* the records of a remote snapshot, of which verifyProtocol reads these fields
RemoteStates ==
    [Name : {"C"}, State : {StateAlive, StateDead}, Vsn : VerifyVsns \cup {<<>>}]

Remotes == UNION {[1 .. k -> RemoteStates] : k \in 0 .. MaxRemote}

\* B as A came to know it in state x: alive, suspected by A, declared dead by A,
\* or having left
Known(st, x) ==
    LET s == [Incarnation |-> 1, Node |-> "B", From |-> Self]
    IN  IF x = StateAlive THEN st
        ELSE IF x = StateSuspect THEN SuspectNode(st, s)
        ELSE IF x = StateDead THEN DeadNode(st, s)
        ELSE DeadNode(st, [s EXCEPT !.From = "B"])

VerifyInit ==
    /\ config = SmallConfig
    /\ now = 0
    /\ delivered = 0
    /\ op = "aliveNode"
    /\ Unscheduled
    /\ \E va \in VerifyVsns, vb \in VerifyVsns :
        \E x \in {StateAlive, StateSuspect, StateDead, StateLeft} :
            LET s0 == AliveNode(NewMemberlist, [SelfAlive EXCEPT !.Vsn = va],
                                FALSE, TRUE, 0)
                s1 == AliveNode(s0, [PeerAlive("B") EXCEPT !.Vsn = vb],
                                FALSE, FALSE, 0)
            IN  Start([Known(s1, x) EXCEPT !.out = <<>>])

\* a call of verifyProtocol(remote): it only reads, under the read lock
Verify(remote) ==
    /\ op' = "verifyProtocol"
    /\ out' = <<[kind |-> "verifyProtocol", remote |-> remote,
                 err |-> VerifyProtocol(St, remote)]>>
    /\ UNCHANGED <<config, nodeMap, nodes, numNodes, nodeTimers, detached,
                   callbacks, incarnation, score, leave, now, delivered,
                   probeVars, schedVars, ackVars, lockVars>>

VerifyNext == \E remote \in Remotes : Verify(remote)

SpecVerify == VerifyInit /\ [][VerifyNext]_vars

-----------------------------------------------------------------------------
\* The handlers under m.nodeLock, with the calls of the event delegate as steps
\* of their own: m.config.Events is nil or a ChannelEventDelegate, whose
\* NotifyJoin, NotifyUpdate and NotifyLeave send on a channel that the
\* application reads when it pleases.

LockConfigs == {[Events |-> e] @@ SmallConfig : e \in {"nil", "channel"}}

\* a call of the event delegate
IsEvent(e) == e.kind \in {"join", "update", "leave"}

\* any other call a handler makes
NotEvent(e) == ~IsEvent(e)

\* a handler takes m.nodeLock, runs up to its calls of the event delegate and
\* keeps the lock: its Unlock is deferred
Handle(st, name) ==
    /\ nodeLock = ""
    /\ Deliver
    /\ nodeLock' = name
    /\ notifying' = IF config.Events = "nil" THEN <<>>
                    ELSE SelectSeq(st.out, IsEvent)
    /\ Effect([st EXCEPT !.out = SelectSeq(st.out, NotEvent)])
    /\ op' = name
    /\ UNCHANGED <<config, now, probeVars, schedVars, ackVars, eventCh>>

LockedAlive(a, offset) == Handle(AliveNode(St, a, FALSE, FALSE, offset), "aliveNode")

LockedSuspect(s) == Handle(SuspectNode(St, s), "suspectNode")

LockedDead(d) == Handle(DeadNode(St, d), "deadNode")

\* c.Ch <- NodeEvent{...}, lines 58, 63 and 68: the holder of the lock sends
\* once the channel has room
Notify ==
    /\ nodeLock # ""
    /\ notifying # <<>>
    /\ Len(eventCh) < MaxEvents
    /\ eventCh' = Append(eventCh, Head(notifying))
    /\ notifying' = Tail(notifying)
    /\ out' = Append(out, Head(notifying))
    /\ op' = "notify"
    /\ UNCHANGED <<config, now, delivered, table, nodeLock, probeVars, schedVars,
                   ackVars>>

\* the deferred m.nodeLock.Unlock() when the handler returns
Unlock ==
    /\ nodeLock # ""
    /\ notifying = <<>>
    /\ nodeLock' = ""
    /\ op' = "unlock"
    /\ UNCHANGED <<config, now, delivered, table, out, notifying, eventCh,
                   probeVars, schedVars, ackVars>>

\* the application receives from the channel
Consume ==
    /\ eventCh # <<>>
    /\ eventCh' = Tail(eventCh)
    /\ op' = "consume"
    /\ UNCHANGED <<config, now, delivered, table, out, nodeLock, notifying,
                   probeVars, schedVars, ackVars>>

LockAlives ==
    {a \in AliveMsgs : a.Node = "B" /\ a.Addr = "10.0.0.2"} \cup {PeerAlive("C")}

LockInit ==
    /\ config \in LockConfigs
    /\ now = 0
    /\ delivered = 0
    /\ op = "aliveNode"
    /\ Unscheduled
    /\ LET s0 == AliveNode(NewMemberlist, SelfAlive, FALSE, TRUE, 0)
       IN  Start(AliveNode([s0 EXCEPT !.out = <<>>], PeerAlive("B"), FALSE, FALSE, 0))

\* the steps of the handler that holds the lock
LockRun == Notify \/ Unlock

LockNext ==
    \/ \E a \in LockAlives : \E offset \in Offsets(a.Node) : LockedAlive(a, offset)
    \/ \E s \in ClusterSuspects : LockedSuspect(s)
    \/ \E d \in ClusterDeads : LockedDead(d)
    \/ LockRun
    \/ Consume

SpecLock == LockInit /\ [][LockNext]_vars

\* the goroutine of the handler is scheduled as long as it can run; nothing
\* makes the application read the channel
SpecLockFair == SpecLock /\ WF_vars(LockRun)

-----------------------------------------------------------------------------
\* Arming a suspicion under every small SuspicionMult, in a cluster of two (A
\* and B) that C may join: B is accused by A, B and C and may refute.

ArmConfigs == {[SmallConfig EXCEPT !.SuspicionMult = m] : m \in 1 .. MaxMult}

\* A and B are alive; B may have been suspected by A already
ArmInit ==
    /\ config \in ArmConfigs
    /\ now = 0
    /\ delivered = 0
    /\ Unscheduled
    /\ LET s0 == AliveNode(NewMemberlist, SelfAlive, FALSE, TRUE, 0)
           s1 == AliveNode([s0 EXCEPT !.out = <<>>], PeerAlive("B"), FALSE, FALSE, 0)
           s == [Incarnation |-> 1, Node |-> "B", From |-> Self]
       IN  \/ op = "aliveNode" /\ Start(s1)
           \/ op = "suspectNode" /\ Start(SuspectNode([s1 EXCEPT !.out = <<>>], s))

ArmNext ==
    \/ \E offset \in Offsets("C") : RecvAlive(PeerAlive("C"), offset)
    \/ \E a \in ClusterAlives : RecvAlive(a, 0)
    \/ \E s \in ClusterSuspects : RecvSuspect(s)
    \/ TimerFire("B")
    \/ \E t \in detached : DetachedFire(t)
    \/ \E c \in callbacks : TimeoutCheck(c)
    \/ \E c \in callbacks : TimeoutDead(c)
    \/ Tick(MaxClusterTime)

SpecArm == ArmInit /\ [][ArmNext]_vars

-----------------------------------------------------------------------------
\* Properties.

\* the handler's calls include an alive broadcast about the local node
RefuteSent(calls, inc) ==
    \E i \in 1 .. Len(calls) :
        /\ calls[i].kind = "broadcast"
        /\ calls[i].type = "alive"
        /\ calls[i].msg.Node = Self
        /\ calls[i].msg.Incarnation = inc

\* suspect and dead messages carry the same fields
Accusations == SuspectMsgs \cup DeadMsgs

C2_MapAndSequenceAgree ==
    /\ SeqToSet(nodes) = DOMAIN nodeMap
    /\ Len(nodes) = Cardinality(DOMAIN nodeMap)

\* C2: resetNodes reaped the local node's entry and kept B's
C2_Witness ==
    /\ op = "resetNodes"
    /\ Self \notin DOMAIN nodeMap
    /\ nodes = <<"B">>

\* C3, as stated: a suspect message about the local node, not older than its
\* entry, makes the handler broadcast an alive message about the local node
\* whose incarnation is greater than the message's.
C3_SuspectSelfRefuted ==
    [][\A s \in SuspectMsgs :
          (/\ s.Node = Self
           /\ Self \in DOMAIN nodeMap
           /\ nodeMap[Self].State = StateAlive
           /\ s.Incarnation >= nodeMap[Self].Incarnation
           /\ RecvSuspect(s))
          => \E inc \in Incarnations :
                 inc > s.Incarnation /\ RefuteSent(out', inc)]_vars

\* C4, as stated: a refutation leaves the local incarnation greater than its
\* value before and greater than the accused incarnation, stores it in the
\* local node's entry and broadcasts it.
C4_RefuteBeatsAccusation ==
    [][\A m \in Accusations :
          (/\ m.Node = Self
           /\ Self \in DOMAIN nodeMap
           /\ ~leave
           /\ m.Incarnation >= nodeMap[Self].Incarnation
           /\ \/ op' = "deadNode" /\ RecvDead(m)
              \/ op' = "suspectNode" /\ RecvSuspect(m))
          => /\ incarnation' > incarnation
             /\ incarnation' > m.Incarnation
             /\ nodeMap'[Self].Incarnation = incarnation'
             /\ RefuteSent(out', incarnation')]_vars

\* C5, as stated: the local node's own entry is never Suspect, and is Dead or
\* Left only once the node is leaving; every suspect or dead message about the
\* local node while it is not leaving is answered by a refutation and changes
\* no state of the entry.
C5_SelfAlwaysRefutes ==
    /\ [](Self \in DOMAIN nodeMap =>
            /\ nodeMap[Self].State # StateSuspect
            /\ DeadOrLeft(nodeMap[Self]) => leave)
    /\ [][\A m \in Accusations :
            (/\ m.Node = Self
             /\ ~leave
             /\ \/ op' = "deadNode" /\ RecvDead(m)
                \/ op' = "suspectNode" /\ RecvSuspect(m))
            => /\ nodeMap'[Self].State = StateAlive
               /\ nodeMap'[Self].Incarnation = incarnation'
               /\ score' = ApplyDelta(score, 1)
               /\ RefuteSent(out', incarnation')]_vars

\* C5, amended: the same, the messages answered by a refutation being those
\* whose incarnation is not below the one stored in the own entry; an older
\* one changes nothing.
C5_SelfNeverSuspect ==
    /\ [](Self \in DOMAIN nodeMap =>
            /\ nodeMap[Self].State # StateSuspect
            /\ DeadOrLeft(nodeMap[Self]) => leave)
    /\ [][\A m \in Accusations :
            (/\ m.Node = Self
             /\ ~leave
             /\ \/ op' = "deadNode" /\ RecvDead(m)
                \/ op' = "suspectNode" /\ RecvSuspect(m))
            => /\ nodeMap'[Self].State = StateAlive
               /\ IF m.Incarnation >= nodeMap[Self].Incarnation
                  THEN /\ nodeMap'[Self].Incarnation = incarnation'
                       /\ score' = ApplyDelta(score, 1)
                       /\ RefuteSent(out', incarnation')
                  ELSE out' = <<>> /\ UNCHANGED table]_vars

\* C5: a dead message about the local node was refuted
C5_Witness ==
    /\ op = "deadNode"
    /\ ~leave
    /\ nodeMap[Self].State = StateAlive
    /\ RefuteSent(out, incarnation)
    /\ incarnation > 1

\* C6: an alive message for a suspected node, from the stored address and with
\* an incarnation above the stored one, removes the node's suspicion timer and
\* leaves the node Alive with the message's incarnation.
C6_AliveCancelsSuspicion ==
    [][\A a \in ClusterAlives :
          (/\ a.Node \in DOMAIN nodeTimers
           /\ nodeMap[a.Node].State = StateSuspect
           /\ ~AddrDiffers(nodeMap[a.Node], a)
           /\ a.Incarnation > nodeMap[a.Node].Incarnation
           /\ RecvAlive(a, 0))
          => /\ a.Node \notin DOMAIN nodeTimers'
             /\ nodeMap'[a.Node].State = StateAlive
             /\ nodeMap'[a.Node].Incarnation = a.Incarnation]_vars

\* C6: B is alive again after an alive message took its armed suspicion away
C6_Witness ==
    /\ op = "aliveNode"
    /\ Len(out) = 1
    /\ nodeMap["B"].State = StateAlive
    /\ nodeMap["B"].StateChange = now
    /\ "B" \notin DOMAIN nodeTimers
    /\ \E t \in detached : t.node = "B" /\ t.deadline > now

\* C7: once a suspicion expecting k >= 1 confirmations has accepted k of them
\* its total timeout is min: its timer, if still armed, expires min after the
\* start, and otherwise the timeout callback has been launched.
C7_ConfirmedTimeoutIsMin ==
    \A name \in DOMAIN nodeTimers :
        LET t == nodeTimers[name]
        IN  (t.k >= 1 /\ t.n = t.k) =>
                /\ RemainingSuspicionTime(t.n, t.k, 0, t.min, t.max) = t.min
                /\ t.timer = "armed" => t.deadline = t.start + t.min
                /\ t.timer # "armed" => Callback(t) \in callbacks

\* C7: the last of two confirmations came after min had elapsed and launched
\* the callback itself
C7_Witness ==
    \E name \in DOMAIN nodeTimers :
        LET t == nodeTimers[name]
        IN  /\ t.k = 2
            /\ t.n = 2
            /\ t.timer = "stopped"
            /\ now - t.start >= t.min
            /\ op = "confirm"

\* C8, as stated: when the timeout callback of a suspicion finds the node
\* still Suspect with the StateChange recorded at arming, the node becomes
\* Dead, a dead message from the local node is broadcast and the leave event
\* is raised.
C8_TimeoutMarksDeadAlways ==
    [][\A c \in callbacks :
          (c.pc = "dead" /\ TimeoutDead(c))
          => /\ c.node \in DOMAIN nodeMap'
             /\ nodeMap'[c.node].State = StateDead
             /\ out' = <<[kind |-> "broadcast", key |-> c.node, type |-> "dead",
                          msg |-> [Incarnation |-> c.inc, Node |-> c.node,
                                   From |-> Self],
                          notify |-> FALSE],
                         [kind |-> "leave", node |-> c.node]>>]_vars

\* C8, amended: the same, provided the node is still Suspect with that
\* StateChange and incarnation when the callback calls deadNode; and the
\* confirmation that completes the expected k, arriving after min has elapsed,
\* launches the callback at once.
C8_TimeoutMarksDead ==
    [][/\ \A c \in callbacks :
             (/\ c.pc = "dead"
              /\ TimeoutHolds(St, c)
              /\ nodeMap[c.node].Incarnation = c.inc
              /\ TimeoutDead(c))
             => /\ nodeMap'[c.node].State = StateDead
                /\ nodeMap'[c.node].StateChange = now
                /\ c.node \notin DOMAIN nodeTimers'
                /\ out' = <<[kind |-> "broadcast", key |-> c.node, type |-> "dead",
                             msg |-> [Incarnation |-> c.inc, Node |-> c.node,
                                      From |-> Self],
                             notify |-> FALSE],
                            [kind |-> "leave", node |-> c.node]>>
       /\ \A s \in ClusterSuspects :
             (/\ s.Node \in DOMAIN nodeTimers
              /\ s.Incarnation >= nodeMap[s.Node].Incarnation
              /\ nodeTimers[s.Node].k >= 1
              /\ nodeTimers[s.Node].n + 1 = nodeTimers[s.Node].k
              /\ nodeTimers[s.Node].timer = "armed"
              /\ now - nodeTimers[s.Node].start >= nodeTimers[s.Node].min
              /\ ConfirmAccepts(nodeTimers[s.Node], s.From)
              /\ RecvSuspect(s))
             => /\ Callback(nodeTimers[s.Node]) \in callbacks'
                /\ nodeTimers'[s.Node].timer = "stopped"]_vars

\* C8: the callback of B's suspicion has marked B dead
C8_Witness ==
    /\ op = "timeoutDead"
    /\ nodeMap["B"].State = StateDead
    /\ nodeMap["B"].StateChange = now
    /\ Len(out) = 2
    /\ out[1].msg.From = Self

\* C9: an alive message with another address or port for a node that is Alive
\* or Suspect raises the conflict notification and changes nothing.
C9_ConflictChangesNothing ==
    [][\A a \in ClusterAlives :
          (/\ a.Node \in DOMAIN nodeMap
           /\ nodeMap[a.Node].State \in {StateAlive, StateSuspect}
           /\ AddrDiffers(nodeMap[a.Node], a)
           /\ RecvAlive(a, 0))
          => /\ out' = <<[kind |-> "conflict", node |-> a.Node]>>
             /\ UNCHANGED table]_vars

\* C9: a conflict was notified for B while B is suspected
C9_Witness ==
    /\ op = "aliveNode"
    /\ out = <<[kind |-> "conflict", node |-> "B"]>>
    /\ nodeMap["B"].State = StateSuspect
    /\ "B" \in DOMAIN nodeTimers

\* C10, as stated: a dead message that a node sent about itself moves the
\* node from Alive or Suspect to Left with a leave event, and while the node
\* is Left every alive message whose incarnation is not above the stored one
\* is ignored.
C10_LeftIgnoresOldAlive ==
    [][/\ \A d \in ClusterDeads :
             (/\ d.Node = d.From
              /\ d.Node \in DOMAIN nodeMap
              /\ nodeMap[d.Node].State \in {StateAlive, StateSuspect}
              /\ d.Incarnation >= nodeMap[d.Node].Incarnation
              /\ RecvDead(d))
             => /\ nodeMap'[d.Node].State = StateLeft
                /\ out'[Len(out')] = [kind |-> "leave", node |-> d.Node]
       /\ \A a \in ClusterAlives :
             (/\ a.Node \in DOMAIN nodeMap
              /\ nodeMap[a.Node].State = StateLeft
              /\ a.Incarnation <= nodeMap[a.Node].Incarnation
              /\ RecvAlive(a, 0))
             => out' = <<>> /\ UNCHANGED table]_vars

\* C10, amended: the same for a node other than the local one and a dead
\* message not older than the entry, the alive messages ignored being those
\* from the stored address and port; an alive message with a higher
\* incarnation, or from another address or port, makes the node Alive again
\* with the message's incarnation.
C10_LeftStaysLeft ==
    [][/\ \A d \in ClusterDeads :
             (/\ d.Node = d.From
              /\ d.Node \in DOMAIN nodeMap
              /\ nodeMap[d.Node].State \in {StateAlive, StateSuspect}
              /\ d.Incarnation >= nodeMap[d.Node].Incarnation
              /\ RecvDead(d))
             => /\ nodeMap'[d.Node].State = StateLeft
                /\ out'[Len(out')] = [kind |-> "leave", node |-> d.Node]
       /\ \A a \in ClusterAlives :
             (/\ a.Node \in DOMAIN nodeMap
              /\ nodeMap[a.Node].State = StateLeft
              /\ RecvAlive(a, 0))
             => IF /\ a.Incarnation <= nodeMap[a.Node].Incarnation
                   /\ ~AddrDiffers(nodeMap[a.Node], a)
                THEN out' = <<>> /\ UNCHANGED table
                ELSE /\ nodeMap'[a.Node].State = StateAlive
                     /\ nodeMap'[a.Node].Incarnation = a.Incarnation]_vars

\* C10: an alive message for B was ignored while B is Left
C10_Witness ==
    /\ op = "aliveNode"
    /\ out = <<>>
    /\ nodeMap["B"].State = StateLeft
    /\ nodeMap["B"].StateChange = now

\* C11, as stated: an entry that is Dead or Left leaves the table only in
\* resetNodes, and while it is in the table its address or port is replaced
\* only when DeadNodeReclaimTime has passed since its StateChange.
C11_DeadOrLeftKeepsAddress ==
    [][\A n \in DOMAIN nodeMap :
          DeadOrLeft(nodeMap[n])
          => /\ (n \in DOMAIN nodeMap' \/ op' = "resetNodes")
             /\ (n \in DOMAIN nodeMap'
                 /\ (nodeMap'[n].Addr # nodeMap[n].Addr
                     \/ nodeMap'[n].Port # nodeMap[n].Port))
                => Since(nodeMap[n].StateChange) >= config.DeadNodeReclaimTime]_vars

\* C11, amended: an entry that is Dead or Left leaves the table only in
\* resetNodes; the address or port of a Dead entry is replaced only when
\* DeadNodeReclaimTime is set and has passed since its StateChange, while the
\* address of a Left entry may be replaced at any time.
C11_DeadKeepsAddress ==
    [][\A n \in DOMAIN nodeMap :
          DeadOrLeft(nodeMap[n])
          => /\ (n \in DOMAIN nodeMap' \/ op' = "resetNodes")
             /\ (n \in DOMAIN nodeMap' => n \in SeqToSet(nodes'))
             /\ (n \in DOMAIN nodeMap'
                 /\ (nodeMap'[n].Addr # nodeMap[n].Addr
                     \/ nodeMap'[n].Port # nodeMap[n].Port))
                => \/ nodeMap[n].State = StateLeft
                   \/ /\ config.DeadNodeReclaimTime > 0
                      /\ Since(nodeMap[n].StateChange) >= config.DeadNodeReclaimTime]_vars

\* C11: an alive message with another address for B, dead since this clock
\* reading, was turned down with a conflict notification
C11_Witness ==
    /\ op = "aliveNode"
    /\ out = <<[kind |-> "conflict", node |-> "B"]>>
    /\ nodeMap["B"].State = StateDead
    /\ nodeMap["B"].StateChange = now
    /\ "B" \in SeqToSet(nodes)

\* C12, as stated: for a Dead entry an alive message with another address or
\* port is taken as an address update exactly when the time since StateChange
\* is at least DeadNodeReclaimTime, whatever DeadNodeReclaimTime is, zero
\* included; otherwise the conflict is notified and nothing changes.
C12_ReclaimAtLeast ==
    [][\A a \in ClusterAlives :
          (/\ a.Node \in DOMAIN nodeMap
           /\ nodeMap[a.Node].State = StateDead
           /\ AddrDiffers(nodeMap[a.Node], a)
           /\ RecvAlive(a, 0))
          => IF Since(nodeMap[a.Node].StateChange) >= config.DeadNodeReclaimTime
             THEN /\ nodeMap'[a.Node].Addr = a.Addr
                  /\ nodeMap'[a.Node].Port = a.Port
                  /\ nodeMap'[a.Node].State = StateAlive
             ELSE /\ out' = <<[kind |-> "conflict", node |-> a.Node]>>
                  /\ UNCHANGED table]_vars

\* C12, amended: the alive message is taken as an address update exactly when
\* DeadNodeReclaimTime is greater than zero and the time since StateChange is
\* strictly greater than DeadNodeReclaimTime; otherwise the conflict is
\* notified and nothing changes.
C12_ReclaimAfter ==
    [][\A a \in ClusterAlives :
          (/\ a.Node \in DOMAIN nodeMap
           /\ nodeMap[a.Node].State = StateDead
           /\ AddrDiffers(nodeMap[a.Node], a)
           /\ RecvAlive(a, 0))
          => IF /\ config.DeadNodeReclaimTime > 0
                /\ Since(nodeMap[a.Node].StateChange) > config.DeadNodeReclaimTime
             THEN /\ nodeMap'[a.Node].Addr = a.Addr
                  /\ nodeMap'[a.Node].Port = a.Port
                  /\ nodeMap'[a.Node].State = StateAlive
                  /\ nodeMap'[a.Node].Incarnation = a.Incarnation
                  /\ nodeMap'[a.Node].StateChange = now
             ELSE /\ out' = <<[kind |-> "conflict", node |-> a.Node]>>
                  /\ UNCHANGED table]_vars

\* C12: an alive message with another address for B was turned down when B had
\* been dead for exactly DeadNodeReclaimTime
C12_Witness ==
    /\ op = "aliveNode"
    /\ out = <<[kind |-> "conflict", node |-> "B"]>>
    /\ nodeMap["B"].State = StateDead
    /\ config.DeadNodeReclaimTime > 0
    /\ now - nodeMap["B"].StateChange = config.DeadNodeReclaimTime

C14_NumNodesCountsLive ==
    numNodes = Cardinality({i \in 1 .. Len(nodes) : ~DeadOrLeft(nodeMap[nodes[i]])})

\* C14, amended: numNodes is the number of entries of the sequence, the Dead
\* and Left entries that resetNodes has not reaped yet included.
C14_NumNodesCountsEntries == numNodes = Len(nodes)

\* C14: B was declared dead and is still counted
C14_Witness ==
    /\ op = "deadNode"
    /\ "B" \in DOMAIN nodeMap
    /\ nodeMap["B"].State = StateDead
    /\ nodeMap[Self].State = StateAlive
    /\ Len(nodes) = 2
    /\ numNodes = 2

\* C15, as stated: after any ApplyDelta calls the score is between 0 and
\* max - 1, and ScaleTimeout of a timeout that is not negative returns the
\* timeout times (score + 1), which is not shorter than the timeout.
C15_ScoreBoundedTimeoutLonger ==
    /\ score \in 0 .. (config.AwarenessMaxMultiplier - 1)
    /\ (op = "scaleTimeout"
        => /\ out[1].scaled = out[1].timeout * (score + 1)
           /\ out[1].scaled >= out[1].timeout)


\* C15, amended: after any ApplyDelta calls the score is between 0 and
\* max - 1, and ScaleTimeout of a timeout that is not negative returns the
\* timeout times (score + 1), not shorter than the timeout, whenever that
\* product is not above the largest duration.
C15_ScoreBoundedTimeoutScaled ==
    /\ score \in 0 .. (config.AwarenessMaxMultiplier - 1)
    /\ (op = "scaleTimeout" /\ out[1].timeout * (score + 1) <= MaxInt
        => /\ out[1].scaled = out[1].timeout * (score + 1)
           /\ out[1].scaled >= out[1].timeout)

\* C15: with the score at its ceiling of 3 a timeout of 3 was scaled to 12
C15_Witness ==
    /\ op = "scaleTimeout"
    /\ config.AwarenessMaxMultiplier = 4
    /\ score = 3
    /\ out[1].timeout = 3
    /\ out[1].scaled = 12

\* C16, as stated: between two wraps of the probe index no node is picked as
\* probe target twice, also when aliveNode adds entries in between.
C16_ProbedOncePerRound ==
    \A i, j \in 1 .. Len(round.targets) :
        round.targets[i] = round.targets[j] => i = j

\* C16, amended: between two wraps of the probe index no node is picked as
\* probe target twice, as long as aliveNode has added no entry to the sequence
\* since the first of the two wraps.
C16_ProbedOnceUnlessGrown ==
    ~round.grown
    => \A i, j \in 1 .. Len(round.targets) :
           round.targets[i] = round.targets[j] => i = j

\* C16: B and C were both probed since the last wrap, with no entry added
C16_Witness ==
    /\ op = "probe"
    /\ ~round.grown
    /\ Len(round.targets) = 2
    /\ probeIndex = Len(nodes)
    /\ Len(nodes) = 3

\* the state a handler returned, without the calls it made
Silent(st) == [st EXCEPT !.out = <<>>]

\* C17, as stated: applying aliveNode twice with the same alive message and the
\* same bootstrap argument leaves the table, the suspicions, the local
\* incarnation and the awareness score as applying it once does.
C17_AliveTwiceIsAliveOnce ==
    \A a \in AliveMsgs : \A bootstrap \in BOOLEAN : \A offset \in Offsets(a.Node) :
        LET once == Silent(AliveNode(St, a, FALSE, bootstrap, offset))
        IN  Silent(AliveNode(once, a, FALSE, bootstrap, 0)) = once

\* the state of node n before the step is one of S
Was(n, S) == n \in DOMAIN nodeMap /\ nodeMap[n].State \in S

\* C18: the event delegate is called inside the handler step that commits the
\* transition, so the calls are never concurrent and follow the order of the
\* commits: a step makes at most one such call; a join is for a node the step
\* made Alive from Dead, Left or unknown, a leave for a node it made Dead or
\* Left from Alive or Suspect, an update for a node that stays a member and
\* whose Meta it changed; and every such transition has its call in the step.
C18_EventsFollowCommits ==
    [][LET ev == {i \in 1 .. Len(out') : out'[i].kind \in {"join", "leave", "update"}}
           member == {StateAlive, StateSuspect}
           called(kind, n) == \E i \in ev : out'[i] = [kind |-> kind, node |-> n]
       IN  /\ Cardinality(ev) <= 1
           /\ \A i \in ev :
                 LET n == out'[i].node
                 IN  /\ n \in DOMAIN nodeMap'
                     /\ out'[i].kind = "join"
                        => nodeMap'[n].State = StateAlive /\ ~Was(n, member)
                     /\ out'[i].kind = "leave"
                        => DeadOrLeft(nodeMap'[n]) /\ Was(n, member)
                     /\ out'[i].kind = "update"
                        => /\ nodeMap'[n].State = StateAlive
                           /\ Was(n, member)
                           /\ nodeMap'[n].Meta # nodeMap[n].Meta
           /\ \A n \in DOMAIN nodeMap' :
                 /\ (nodeMap'[n].State = StateAlive /\ ~Was(n, member))
                    => called("join", n)
                 /\ (DeadOrLeft(nodeMap'[n]) /\ Was(n, member))
                    => called("leave", n)
                 /\ (/\ nodeMap'[n].State \in member
                     /\ Was(n, member)
                     /\ nodeMap'[n].Meta # nodeMap[n].Meta)
                    => called("update", n)]_vars

\* C18: the callback of a suspicion timer declared B dead and called the
\* leave notification in the same step
C18_Witness ==
    /\ op = "timeoutDead"
    /\ nodeMap["B"].State = StateDead
    /\ \E i \in 1 .. Len(out) : out[i] = [kind |-> "leave", node |-> "B"]

\* the goroutine of a periodic task that has not been told to stop
Looping(kind, stop) ==
    /\ stop \in 1 .. Len(stopChs)
    /\ ~stopChs[stop]
    /\ \E t \in tasks : t.kind = kind /\ t.stop = stop

\* C19, as stated: under every configuration of the three intervals a call of
\* schedule while a started task has not been told to stop starts no task, so
\* that no two probe loops, no two gossip loops and no two push/pull loops run
\* at a time.
C19_ScheduleTwiceStartsNothing ==
    [][/\ (/\ op' = "schedule"
           /\ \E kind \in Kinds : \E stop \in 1 .. MaxSchedules : Looping(kind, stop))
          => tasks' = tasks
       /\ \A kind \in Kinds : \A c1, c2 \in 1 .. MaxSchedules :
              (Looping(kind, c1)' /\ Looping(kind, c2)') => c1 = c2]_vars

\* the goroutine of a periodic task has not returned
Running(kind, stop) == \E t \in tasks : t.kind = kind /\ t.stop = stop

\* C20, as stated: under every configuration in which schedule started a task,
\* every task that runs when deschedule is called returns in the end, and a
\* call of deschedule never fails.
C20_DescheduleStopsAll ==
    /\ \A kind \in Kinds : \A stop \in 1 .. MaxSchedules :
           (op = "deschedule" /\ Running(kind, stop)) ~> ~Running(kind, stop)
    /\ [](op = "deschedule" => out = <<>>)


\* the handler's calls include a suspect broadcast about node n from the local node
SuspectSent(calls, n) ==
    \E i \in 1 .. Len(calls) :
        /\ calls[i].kind = "broadcast"
        /\ calls[i].type = "suspect"
        /\ calls[i].msg.Node = n
        /\ calls[i].msg.From = Self

\* the awareness delta of a round that failed altogether
FailPenalty(expected, observed) ==
    IF expected > 0
    THEN (IF expected - observed > 0 THEN expected - observed ELSE 0)
    ELSE 1

\* the suspect message of a round that failed altogether
FailSuspect ==
    [Incarnation |-> probing.node.Incarnation, Node |-> probing.node.Name,
     From |-> Self]

\* C21, as stated: a round that failed altogether makes an Alive target Suspect
\* and queues a suspect broadcast about it.
C21_FailSuspectsAlive ==
    [][(op' = "fail" /\ probing.pc = "fail"
            /\ Was(probing.node.Name, {StateAlive}))
        => /\ nodeMap'[probing.node.Name].State = StateSuspect
           /\ SuspectSent(out', probing.node.Name)]_vars

\* C21: a round in which no completing ack came and the stream fallback made no
\* contact applies the awareness delta max(expectedNacks - nacks, 0), or 1 when
\* no nack was expected, and hands the target to suspectNode in a suspect
\* message from the local node that carries the incarnation the round read when
\* it chose the target; a target that is Alive with that same incarnation
\* becomes Suspect and a suspect broadcast about it is queued, while a target
\* whose incarnation has risen since stays as it is.
C21_FailPenalisesAndSuspects ==
    [][(op' = "fail" /\ probing.pc = "fail")
        => LET t == probing.node.Name
               d == FailPenalty(probing.expectedNacks, nackCh[probing.seqNo])
               st == SuspectNode(St, FailSuspect)
           IN  /\ probing'.awarenessDelta = d
               /\ probing'.end = "suspect"
               /\ score' = ApplyDelta(st.score, d)
               /\ nodeMap' = st.nodeMap
               /\ nodeTimers' = st.nodeTimers
               /\ out' = st.out
               /\ (Was(t, {StateAlive})
                        /\ nodeMap[t].Incarnation = probing.node.Incarnation)
                    => /\ nodeMap'[t].State = StateSuspect
                       /\ SuspectSent(out', t)
               /\ (Was(t, {StateAlive})
                        /\ nodeMap[t].Incarnation # probing.node.Incarnation)
                    => /\ nodeMap' = nodeMap
                       /\ out' = <<>>]_vars

\* a round failed with more nacks than it expected and its target is Suspect
C21_Witness ==
    /\ op = "fail"
    /\ probing.end = "suspect"
    /\ probing.expectedNacks = 1
    /\ nackCh[probing.seqNo] = 2
    /\ probing.awarenessDelta = 0
    /\ nodeMap[probing.node.Name].State = StateSuspect
    /\ SuspectSent(out, probing.node.Name)


\* the step is a return of probeNode on a completing ack
AckReturn ==
    /\ op' \in {"wait1Recv", "wait2Recv"}
    /\ probing.pc \in {"wait1", "wait2"}
    /\ probing'.end = "ack"
    /\ probing'.pc = "idle"

\* C22, as stated: every round that ends on a completing ack, in the first wait
\* or after the indirect pings, on every path into the indirect phase, applies
\* the awareness delta -1 and leaves the table alone.
C22_AckReturnCredits ==
    [][AckReturn
        => /\ probing.awarenessDelta = 0 - 1
           /\ score' = ApplyDelta(score, 0 - 1)
           /\ out' = <<>>
           /\ UNCHANGED <<nodeMap, nodes, numNodes, nodeTimers, detached,
                          callbacks, incarnation, leave>>]_vars

\* C22: a round that ends on a completing ack, in the first wait or after the
\* indirect pings, never calls suspectNode and leaves the table alone; it
\* applies the awareness delta -1 when its direct ping was sent, and the delta 0
\* when the direct send failed with a remote-transport error.
C22_AckReturnCreditsSentPing ==
    [][AckReturn
        => LET d == IF net[probing.seqNo].pinged THEN 0 - 1 ELSE 0
           IN  /\ probing.awarenessDelta = d
               /\ score' = ApplyDelta(score, d)
               /\ out' = <<>>
               /\ UNCHANGED <<nodeMap, nodes, numNodes, nodeTimers, detached,
                              callbacks, incarnation, leave>>]_vars

\* a round whose ping was sent ended on a completing ack after the indirect
\* pings and the score went down
C22_Witness ==
    /\ op = "wait2Recv"
    /\ probing.end = "ack"
    /\ net[probing.seqNo].pinged
    /\ net[probing.seqNo].relays > 0
    /\ probing.awarenessDelta = 0 - 1
    /\ score = 0

\* a round whose direct send failed remotely ended on a completing ack of a
\* relay and the score is what it was
C22_RemoteErrorAck ==
    /\ op = "wait2Recv"
    /\ probing.end = "ack"
    /\ ~net[probing.seqNo].pinged
    /\ probing.awarenessDelta = 0
    /\ score = 1


\* everything but the traffic counters and the handler's calls
allButNet == <<table, now, probeVars, schedVars, seqNo, ackHandlers, ackCh,
               nackCh, reapers, acking, probing>>

\* C23: for every sequence number ackFn is called at most once: the
\* invokeAckHandler call that finds the entry deletes it in the same critical
\* section, so a second ack, an ack that comes after the reaper deleted the
\* entry and an ack for a sequence number without an entry change nothing, and
\* the call that found the entry never waits, because ackFn gives the message up
\* when the channel is full.
C23_AckFnAtMostOnce ==
    /\ [](\A q \in Seqs :
            /\ net[q].ackFn <= 1
            /\ ~(q \in acking /\ q \in ackHandlers)
            /\ q \in acking => ENABLED AckDeliver(q))
    /\ [][\A q \in Seqs :
            (op' = "invokeAckHandler" /\ net'[q].acks # net[q].acks)
            => /\ q \notin ackHandlers'
               /\ IF q \in ackHandlers
                  THEN acking' = acking \cup {q}
                  ELSE UNCHANGED allButNet]_vars

\* a second ack for a sequence number came and ackFn was called once
C23_Witness ==
    \E q \in Seqs :
        /\ op = "invokeAckHandler"
        /\ net[q].acks = 2
        /\ net[q].ackFn = 1
        /\ net[q].complete
        /\ q \notin acking


\* the step is mergeState applying the record r of a remote snapshot
Merges(r) ==
    /\ op' = "mergeState"
    /\ \E offset \in Offsets(r.Name) :
            LET st == MergeApply(St, r, offset)
            IN  /\ nodeMap' = st.nodeMap
                /\ nodeTimers' = st.nodeTimers
                /\ incarnation' = st.incarnation
                /\ out' = st.out

\* C24: mergeState never takes a node that is Alive here straight to Dead: under
\* a remote record that says Dead or Suspect it stays Alive or becomes Suspect,
\* and then the suspect broadcast names the local node as the accuser; under a
\* remote record that says Left it stays Alive or becomes Left; under a remote
\* Alive record it stays Alive; and only the node the record names changes state.
C24_MergeNeverKillsAlive ==
    [][\A r \in PushNodeStates :
        Merges(r) =>
            \A n \in DOMAIN nodeMap :
                Was(n, {StateAlive}) =>
                    /\ n \in DOMAIN nodeMap'
                    /\ nodeMap'[n].State # StateDead
                    /\ n # r.Name => nodeMap'[n].State = StateAlive
                    /\ r.State = StateAlive => nodeMap'[n].State = StateAlive
                    /\ r.State = StateLeft
                        => nodeMap'[n].State \in {StateAlive, StateLeft}
                    /\ r.State \in {StateDead, StateSuspect}
                        => /\ nodeMap'[n].State \in {StateAlive, StateSuspect}
                           /\ nodeMap'[n].State = StateSuspect
                                => /\ SuspectSent(out', n)
                                   /\ n \in DOMAIN nodeTimers']_vars

\* a remote record that says Dead made the Alive B Suspect, accused by A
C24_Witness ==
    /\ op = "mergeState"
    /\ "B" \in DOMAIN nodeMap
    /\ nodeMap["B"].State = StateSuspect
    /\ SuspectSent(out, "B")
    /\ \E r \in PushNodeStates :
            /\ r.State = StateDead
            /\ r.Name = "B"
            /\ r.Incarnation = nodeMap["B"].Incarnation


\* the version tuples that count for the bounds: those of the Alive entries of
\* the table and of the Alive remote records that carry one
AliveVsns(remote) ==
    {nodeMap[n].Vsn : n \in {m \in DOMAIN nodeMap : nodeMap[m].State = StateAlive}}
        \cup {remote[i].Vsn : i \in {j \in 1 .. Len(remote) :
                                        /\ remote[j].State = StateAlive
                                        /\ Len(remote[j].Vsn) > 0}}

\* a current protocol version p and delegate version d lie within the highest
\* minimum and the lowest maximum of the tuples in vs
Within(vs, p, d) ==
    /\ \A v \in vs : v[1] <= p /\ p <= v[2] /\ v[4] <= d /\ d <= v[5]
    /\ p <= MaxUint8
    /\ d <= MaxUint8

\* the current versions of a remote record: zero when it carries no tuple
RemoteCur(r) == IF Len(r.Vsn) > 0 THEN <<r.Vsn[3], r.Vsn[6]>> ELSE <<0, 0>>

\* C25, as stated: verifyProtocol rejects exactly when some Alive node, local or
\* remote, has a current version outside the bounds taken over the Alive nodes;
\* nodes that are not Alive never cause a rejection.
C25_RejectsIffAliveOutside ==
    op = "verifyProtocol" =>
        LET remote == out[1].remote
            vs == AliveVsns(remote)
        IN  out[1].err <=>
                \/ \E n \in DOMAIN nodeMap :
                        /\ nodeMap[n].State = StateAlive
                        /\ ~Within(vs, nodeMap[n].Vsn[3], nodeMap[n].Vsn[6])
                \/ \E i \in 1 .. Len(remote) :
                        /\ remote[i].State = StateAlive
                        /\ ~Within(vs, RemoteCur(remote[i])[1], RemoteCur(remote[i])[2])

\* the verdict of the last call is an error exactly when some node of the table
\* or record of the snapshot, in whatever state, is outside the bounds
VerdictIsAnyOutside ==
    op = "verifyProtocol" =>
        LET remote == out[1].remote
            vs == AliveVsns(remote)
        IN  out[1].err <=>
                \/ \E n \in DOMAIN nodeMap :
                        ~Within(vs, nodeMap[n].Vsn[3], nodeMap[n].Vsn[6])
                \/ \E i \in 1 .. Len(remote) :
                        ~Within(vs, RemoteCur(remote[i])[1], RemoteCur(remote[i])[2])

\* C25: verifyProtocol rejects exactly when some node, local or remote and in
\* whatever state, has a current protocol version outside [maxpmin, minpmax] or
\* a current delegate version outside [maxdmin, mindmax], where the bounds are
\* taken over the Alive nodes only and a remote record without a version tuple
\* counts with the current versions 0; the call leaves the table as it is.
C25_RejectsIffAnyOutside ==
    /\ []VerdictIsAnyOutside
    /\ [][op' = "verifyProtocol" => UNCHANGED table]_vars

\* a merge was rejected although every Alive node is within the bounds: B, which
\* is Dead in the table, speaks a protocol version above the lowest maximum
C25_Witness ==
    /\ op = "verifyProtocol"
    /\ out[1].err
    /\ nodeMap["B"].State = StateDead
    /\ ~Within(AliveVsns(out[1].remote), nodeMap["B"].Vsn[3], nodeMap["B"].Vsn[6])
    /\ Within(AliveVsns(out[1].remote), nodeMap[Self].Vsn[3], nodeMap[Self].Vsn[6])
    /\ \A i \in 1 .. Len(out[1].remote) :
            Within(AliveVsns(out[1].remote), RemoteCur(out[1].remote[i])[1],
                   RemoteCur(out[1].remote[i])[2])


\* the message names a node of the table and its incarnation is strictly lower
\* than the stored one
Older(msg) ==
    /\ msg.Node \in DOMAIN nodeMap
    /\ msg.Incarnation < nodeMap[msg.Node].Incarnation

\* the handler left the table, the suspicions, the awareness score and the
\* local incarnation as they were, queued no broadcast and called no event
Untouched(st) ==
    /\ [st EXCEPT !.out = <<>>] = St
    /\ \A i \in 1 .. Len(st.out) :
            st.out[i].kind \notin {"broadcast", "join", "leave", "update"}

\* C26, as stated: an alive, suspect or dead message whose incarnation is
\* strictly lower than the stored one, or a suspect or dead message about an
\* unknown name, has no effect at all.
C26_OlderMessagesChangeNothing ==
    /\ \A a \in AliveMsgs : Older(a) => Untouched(AliveNode(St, a, FALSE, FALSE, 0))
    /\ \A s \in SuspectMsgs :
            (Older(s) \/ s.Node \notin DOMAIN nodeMap) => Untouched(SuspectNode(St, s))
    /\ \A d \in DeadMsgs :
            (Older(d) \/ d.Node \notin DOMAIN nodeMap) => Untouched(DeadNode(St, d))

\* C26: a suspect or dead message whose incarnation is strictly lower than the
\* stored one, or that names an unknown node, does nothing at all; an alive
\* message with a strictly lower incarnation and the stored address and port
\* does nothing at all; an alive message with a strictly lower incarnation and
\* another address or port changes nothing either, apart from the call of the
\* conflict delegate, unless the entry is Left, or Dead for longer than the
\* reclaim time.
C26_OlderMessagesChangeNothingUnlessMoved ==
    /\ \A a \in AliveMsgs :
            Older(a) =>
                LET state == nodeMap[a.Node]
                    st == AliveNode(St, a, FALSE, FALSE, 0)
                IN  /\ ~AddrDiffers(state, a) => st = St
                    /\ (AddrDiffers(state, a) /\ ~UpdatesNode(state, a))
                        => Untouched(st)
    /\ \A s \in SuspectMsgs :
            (Older(s) \/ s.Node \notin DOMAIN nodeMap) => SuspectNode(St, s) = St
    /\ \A d \in DeadMsgs :
            (Older(d) \/ d.Node \notin DOMAIN nodeMap) => DeadNode(St, d) = St

\* B is Suspect with a running suspicion and an incarnation above the lowest, so
\* that older alive, suspect and dead messages about it exist, and no node C is
\* known
C26_Witness ==
    /\ "B" \in DOMAIN nodeMap
    /\ nodeMap["B"].State = StateSuspect
    /\ "B" \in DOMAIN nodeTimers
    /\ nodeMap["B"].Incarnation = 2
    /\ \E a \in AliveMsgs : Older(a) /\ a.Node = "B" /\ ~AddrDiffers(nodeMap["B"], a)
    /\ \E s \in SuspectMsgs : Older(s) /\ s.Node = "B"
    /\ \E d \in DeadMsgs : Older(d) /\ d.Node = "B"


\* C27, as stated: every probe round returns, for every IndirectChecks >= 0,
\* every order of the probe timeout and the reaper, and every interleaving of
\* invokeAckHandler with the reaper.
C27_RoundReturns == (probing.pc # "idle") ~> (probing.pc = "idle")

\* the same for the configurations with IndirectChecks >= 1, whose channels hold
\* two messages or more
C27_RoundReturnsWithRelays ==
    (probing.pc # "idle" /\ config.IndirectChecks >= 1) ~> (probing.pc = "idle")

\* the send of line 489 has room in the channel whenever probeNode reaches it
C27_RequeueHasRoom ==
    probing.pc = "requeue" => Len(ackCh[probing.seqNo]) < ChanCap

\* probeNode waits at line 489 for room in a full channel that nobody reads
C27_Stuck ==
    /\ probing.pc = "requeue"
    /\ Len(ackCh[probing.seqNo]) = ChanCap
    /\ ~ENABLED RoundRun


\* the step is a return of probeNode
Returns == probing.pc # "idle" /\ probing'.pc = "idle"

\* the steps of probeNode and of the ack handlers
RoundOps ==
    {"sendLocalError", "sendRemoteError", "sendPing", "wait1Recv", "wait1Timeout",
     "requeue", "indirect", "wait2Recv", "fallback", "fail", "invokeAckHandler",
     "ackFn", "invokeNackHandler", "reaperDelete", "reaperSend"}

\* C28: a probe round that returns has called suspectNode exactly when its ping
\* was sent, or the send failed with a remote-transport error, and it received no
\* completing ack in the first or the second wait and the stream fallback
\* reported no contact; the call is the last thing the round does, with the
\* target's name, the incarnation the round read and the local node as accuser;
\* a send that fails locally ends the round at once with no suspicion and the
\* awareness delta 0; and no other step of the round touches the table.
C28_SuspectsIffUnanswered ==
    [][/\ Returns =>
            LET q == probing.seqNo
                dispatched == net[q].pinged
                remoteError == ~net[q].pinged /\ probing.pc # "send"
                answered == probing.pc \in {"wait1", "wait2"} /\ Head(ackCh[q])
                contact == probing.pc = "fallback"
                st == SuspectNode(St, FailSuspect)
            IN  /\ op' = "fail"
                    <=> (dispatched \/ remoteError) /\ ~answered /\ ~contact
                /\ op' = "fail"
                    => /\ nodeMap' = st.nodeMap
                       /\ nodeTimers' = st.nodeTimers
                       /\ out' = st.out
                /\ op' # "fail"
                    => /\ out' = <<>>
                       /\ UNCHANGED <<nodeMap, nodes, numNodes, nodeTimers,
                                      detached, callbacks, incarnation, leave>>
       /\ op' = "sendLocalError"
            => /\ Returns
               /\ probing'.awarenessDelta = 0
               /\ out' = <<>>
               /\ UNCHANGED table
       /\ (op' \in RoundOps /\ ~Returns)
            => /\ out' = <<>>
               /\ UNCHANGED table]_vars

\* a round whose send failed remotely got the sentinel in the second wait and
\* no contact from the fallback, and made its target Suspect
C28_Witness ==
    /\ op = "fail"
    /\ probing.end = "suspect"
    /\ ~net[probing.seqNo].pinged
    /\ net[probing.seqNo].sentinel
    /\ nodeMap[probing.node.Name].State = StateSuspect

\* a round ended on a send that failed locally: no suspicion, the score as it was
C28_WitnessLocalError ==
    /\ op = "sendLocalError"
    /\ probing.end = "localError"
    /\ probing.awarenessDelta = 0
    /\ nodeTimers = <<>>
    /\ score = 1


\* the entries of the table a probe may pick
Eligible == {n \in DOMAIN nodeMap : n # Self /\ ~DeadOrLeft(nodeMap[n])}

\* the positions of the sequence a scan looked at: one for every skip, and one
\* for the target
Considered(r) == r.numCheck - r.wraps + (IF r.target = "" THEN 0 ELSE 1)

\* C29: however the scan of a probe tick ends from the present table and probe
\* index, the node it picks is in the table, is not the local node and is not
\* Dead or Left; the scan ends after looking at no more positions than the
\* sequence holds; and it ends without a target when the table has no entry it
\* may pick, as in an empty table or one of only the local node and Dead or
\* Left entries.
C29_ScanPicksLivePeer ==
    \A r \in ProbeScan(St, probeIndex, 0, 0) :
        /\ r.target # ""
            => /\ r.target \in DOMAIN r.st.nodeMap
               /\ r.target \in DOMAIN nodeMap
               /\ r.target # Self
               /\ ~DeadOrLeft(r.st.nodeMap[r.target])
        /\ Considered(r) <= Len(nodes)
        /\ r.numCheck <= Len(nodes)
        /\ Eligible = {} => r.target = ""

\* the table is empty and a probe tick has just returned without a target
C29_Witness ==
    /\ op = "probe"
    /\ nodes = <<>>
    /\ nodeMap = <<>>
    /\ out = <<>>
    /\ \A r \in ProbeScan(St, probeIndex, 0, 0) : r.target = ""

\* the table holds only the local node and the dead B, and a probe tick has
\* just returned without a target after looking at both
C29_WitnessOnlyDead ==
    /\ op = "probe"
    /\ Len(nodes) = 2
    /\ DeadOrLeft(nodeMap["B"])
    /\ out = <<>>
    /\ probeIndex = 2


\* C30: every entry setProbeChannels put into ackHandlers is removed in the end,
\* by the first ack for its sequence number or by the reaper; for every probe a
\* completing ack or the sentinel is put into its ack channel in the end; a nack
\* leaves the entry where it is, and the ack that finds the entry after a nack
\* is put into the ack channel.
C30_EntriesGoAndChannelsFill ==
    /\ \A q \in Seqs : (q \in ackHandlers) ~> (q \notin ackHandlers)
    /\ \A q \in Seqs :
            (reapers[q] # "none") ~> (net[q].complete \/ net[q].sentinel)
    /\ \A q \in Seqs :
            (q \in acking /\ nackCh[q] > 0) ~> (net[q].complete /\ q \notin acking)
    /\ [][op' = "invokeNackHandler" => ackHandlers' = ackHandlers]_vars
    /\ [][\A q \in Seqs :
            (q \in ackHandlers /\ q \notin ackHandlers')
                => op' \in {"invokeAckHandler", "reaperDelete"}]_vars

\* a nack was counted for a probe and the ack that came after it is in the ack
\* channel
C30_Witness ==
    \E q \in Seqs :
        /\ op = "ackFn"
        /\ nackCh[q] > 0
        /\ net[q].complete
        /\ ackCh[q] # <<>>
        /\ Head(ackCh[q])
        /\ q \notin ackHandlers

\* the suspect message is not older than the entry of its node, and that node
\* has a suspicion in nodeTimers
Confirms(s) ==
    /\ s.Node \in DOMAIN nodeMap
    /\ s.Incarnation >= nodeMap[s.Node].Incarnation
    /\ s.Node \in DOMAIN nodeTimers

\* the calls of a handler are exactly one suspect broadcast of the message
Regossips(calls, s) ==
    /\ Len(calls) = 1
    /\ calls[1].kind = "broadcast"
    /\ calls[1].type = "suspect"
    /\ calls[1].key = s.Node
    /\ calls[1].msg = s

\* C31: a suspect message that is not older than the stored incarnation, for a
\* node that has a suspicion record, leaves every entry of the table (state,
\* incarnation and StateChange included) as it was, adds no suspicion and no
\* timer, keeps the start of the suspicion, and re-broadcasts the message
\* exactly when Confirm counted it as a new confirmation; otherwise it calls
\* nothing.
C31_ConfirmOnlyRegossips ==
    \A s \in ClusterSuspects :
        Confirms(s) =>
            LET st == SuspectNode(St, s)
                t == nodeTimers[s.Node]
                u == st.nodeTimers[s.Node]
                counted == u.n = t.n + 1
            IN  /\ st.nodeMap = nodeMap
                /\ st.nodes = nodes
                /\ st.numNodes = numNodes
                /\ DOMAIN st.nodeTimers = DOMAIN nodeTimers
                /\ st.detached = detached
                /\ u.start = t.start
                /\ (u.timer = "armed") => (t.timer = "armed")
                /\ counted \/ u = t
                /\ counted <=> (s.From \notin t.confirmations /\ t.n < t.k)
                /\ IF counted THEN Regossips(st.out, s) ELSE st.out = <<>>

\* C31: a suspect message about the suspected B came from a second accuser with
\* a higher incarnation; it was counted and re-broadcast, and B's entry kept
\* the incarnation and StateChange of the first suspicion
C31_Witness ==
    /\ op = "suspectNode"
    /\ "B" \in DOMAIN nodeTimers
    /\ nodeTimers["B"].n = 1
    /\ Len(out) = 1
    /\ out[1].type = "suspect"
    /\ out[1].msg.Incarnation > nodeMap["B"].Incarnation
    /\ nodeMap["B"].State = StateSuspect
    /\ nodeMap["B"].StateChange = nodeTimers["B"].start
    /\ nodeMap["B"].StateChange < now

\* the larger of two integers
Max(a, b) == IF a > b THEN a ELSE b

\* the peer newSuspicion was given as from: the first accuser of B
Accuser == "A"

\* C32: for every suspicion and every sequence of Confirm calls the count n
\* never exceeds max(k, 0); n is the number of distinct peers, other than the
\* first accuser, recorded in confirmations, so no peer is counted twice and
\* the accuser never; and Confirm returns true exactly when it increments n,
\* changing nothing of the suspicion when it returns false.
C32_ConfirmCountsEachPeerOnce ==
    /\ [](\A name \in DOMAIN nodeTimers :
            LET t == nodeTimers[name]
            IN  /\ t.n >= 0
                /\ t.n <= Max(t.k, 0)
                /\ Accuser \in t.confirmations
                /\ t.n = Cardinality(t.confirmations \ {Accuser}))
    /\ [][\A from \in Confirmers :
            SuspicionConfirm(from) =>
                LET t == nodeTimers["B"]
                    u == nodeTimers'["B"]
                    ok == out'[1].ok
                IN  /\ ok <=> u.n = t.n + 1
                    /\ ~ok => u = t /\ callbacks' = callbacks
                    /\ ok => from \notin t.confirmations /\ from # Accuser
                    /\ ok => u.confirmations = t.confirmations \cup {from}]_vars

\* C32: a suspicion expecting two confirmations has counted two peers and has
\* just turned down a third
C32_Witness ==
    /\ op = "confirm"
    /\ out[1].ok = FALSE
    /\ out[1].from \notin nodeTimers["B"].confirmations
    /\ nodeTimers["B"].k = 2
    /\ nodeTimers["B"].n = 2

\* C32: a suspicion built with a negative k turned a peer down with n = 0
C32_WitnessNegativeK ==
    /\ op = "confirm"
    /\ out[1].ok = FALSE
    /\ nodeTimers["B"].k < 0
    /\ nodeTimers["B"].n = 0

\* suspectNode would arm a suspicion for this message: its node is a known
\* Alive peer without a suspicion and the message is not older than its entry
Arms(s) ==
    /\ s.Node \in DOMAIN nodeMap
    /\ s.Node # Self
    /\ s.Incarnation >= nodeMap[s.Node].Incarnation
    /\ s.Node \notin DOMAIN nodeTimers
    /\ nodeMap[s.Node].State = StateAlive

\* the k of the statement: max(SuspicionMult - 2, 0), or 0 in a small cluster
ClampedK ==
    LET k == Max(config.SuspicionMult - 2, 0)
    IN  IF numNodes - 2 < k THEN 0 ELSE k

\* the confirmations a suspicion expects: those Confirm can still count when
\* none was counted, the tests of k being n >= k and k < 1
Expects(t) == Max(t.k, 0)

\* a suspicion armed now that expects k confirmations: its timer starts at max
\* when k >= 1 and at min otherwise
ArmedFor(t, k) ==
    /\ Expects(t) = k
    /\ t.n = 0
    /\ t.start = now
    /\ t.max = config.SuspicionMaxTimeoutMult * t.min
    /\ t.timer = "armed"
    /\ t.deadline = now + (IF k >= 1 THEN t.max ELSE t.min)

\* every suspicion counts a suspect message exactly when it comes from a new
\* peer and fewer confirmations were counted than it expects; a suspicion
\* that expects none has a timer that fires min after the start
ExpectsThatMany ==
    \A name \in DOMAIN nodeTimers :
        LET t == nodeTimers[name]
        IN  /\ \A s \in ClusterSuspects :
                    (s.Node = name /\ s.Incarnation >= nodeMap[name].Incarnation)
                        => LET st == SuspectNode(St, s)
                           IN  IF s.From \notin t.confirmations /\ t.n < Expects(t)
                               THEN st.nodeTimers[name].n = t.n + 1
                               ELSE st = St
            /\ Expects(t) = 0 =>
                    /\ t.n = 0
                    /\ t.timer # "stopped"
                    /\ t.deadline = t.start + t.min
                    /\ t.timer = "fired" => now >= t.start + t.min

\* C33: the suspicion suspectNode arms expects max(SuspicionMult - 2, 0)
\* confirmations, none when numNodes - 2 is less than that; its timer starts at
\* max when it expects at least one and at min otherwise; and a suspicion that
\* expects none rejects every Confirm and its timer fires min after the
\* start, for every SuspicionMult >= 1 and cluster of two or three.
C33_ArmsExpectingK ==
    /\ [][\A s \in ClusterSuspects :
            (Arms(s) /\ RecvSuspect(s)) => ArmedFor(nodeTimers'[s.Node], ClampedK)]_vars
    /\ []ExpectsThatMany

\* C33: under SuspicionMult 1 a suspicion of B was armed, a second accuser was
\* turned down and the timer fired min after the start
C33_Witness ==
    /\ config.SuspicionMult = 1
    /\ op = "timer"
    /\ "B" \in DOMAIN nodeTimers
    /\ nodeTimers["B"].n = 0
    /\ nodeTimers["B"].timer = "fired"
    /\ now = nodeTimers["B"].start + nodeTimers["B"].min
    /\ delivered >= 2

\* C33: under SuspicionMult 3 and three nodes a suspicion that expects one
\* confirmation was armed and its timer started at max
C33_WitnessExpectsOne ==
    /\ op = "suspectNode"
    /\ "B" \in DOMAIN nodeTimers
    /\ Expects(nodeTimers["B"]) = 1
    /\ nodeTimers["B"].n = 0
    /\ nodeTimers["B"].deadline = now + nodeTimers["B"].max
    /\ nodeTimers["B"].max > nodeTimers["B"].min

\* C34, as stated: no handler keeps m.nodeLock while it is blocked; every
\* handler that took the lock releases it by steps of its own, whatever the
\* other goroutines and the reader of the event channel do, with a
\* ChannelEventDelegate configured or not.
C34_LockReleased == (nodeLock # "") ~> (nodeLock = "")

\* without an event delegate every handler releases the lock
C34_LockReleasedWithoutDelegate ==
    (nodeLock # "" /\ config.Events = "nil") ~> (nodeLock = "")

\* a handler holds the lock and waits to send on the full event channel
C34_Stuck ==
    /\ nodeLock # ""
    /\ notifying # <<>>
    /\ Len(eventCh) = MaxEvents
    /\ ~ENABLED LockRun

\* C35: in every state a handler leaves, a name has a suspicion in nodeTimers
\* exactly when its entry is Suspect: suspectNode stores the suspicion with
\* the change from Alive to Suspect, and aliveNode, deadNode and the timeout
\* callback (through deadNode) delete it with the change out of Suspect.
C35_SuspicionIffSuspect ==
    /\ DOMAIN nodeTimers \subseteq DOMAIN nodeMap
    /\ \A name \in DOMAIN nodeMap :
            name \in DOMAIN nodeTimers <=> nodeMap[name].State = StateSuspect

\* C35: the timeout callback of B's suspicion has declared B dead and the
\* suspicion is gone
C35_Witness ==
    /\ op = "timeoutDead"
    /\ nodeMap["B"].State = StateDead
    /\ nodeMap["B"].StateChange = now
    /\ "B" \notin DOMAIN nodeTimers
    /\ Len(out) = 2

\* the step is the deadNode call of a timeout callback and it marks the node
\* of the callback Dead
TimeoutKills(c) ==
    /\ TimeoutDead(c)
    /\ nodeMap[c.node].State = StateSuspect
    /\ nodeMap'[c.node].State = StateDead

\* C36, as stated: only the timer of the suspicion a node is under marks it
\* Dead; a timer armed for an earlier suspicion, which an alive message with a
\* higher incarnation ended, never does, whatever the interleaving of the
\* callback with aliveNode and with a new suspicion, one at the same clock
\* reading included.  When a timeout callback marks a node Dead the timer of
\* the node's suspicion has fired or was stopped by Confirm.
C36_OldTimerNeverKills ==
    [][\A c \in callbacks :
          TimeoutKills(c) =>
              /\ c.node \in DOMAIN nodeTimers
              /\ nodeTimers[c.node].timer # "armed"]_vars

\* a node is suspected again at the clock reading of an earlier suspicion
\* whose timer is still armed
C36_SameReading ==
    \E name \in DOMAIN nodeTimers :
        \E t \in detached :
            /\ t.node = name
            /\ t.changeTime = nodeTimers[name].changeTime
            /\ nodeTimers[name].timer = "armed"
            /\ nodeMap[name].Incarnation > 1

\* the timeout callback of an earlier suspicion has marked B Dead before the
\* timer of the suspicion B was under could expire
C36_KilledEarly ==
    /\ op = "timeoutDead"
    /\ nodeMap["B"].State = StateDead
    /\ \E t \in detached :
            /\ t.node = "B"
            /\ t.changeTime = 0
            /\ t.deadline > now

\* the handlers that call suspectNode (probeNode among them), deadNode and
\* aliveNode
BySuspectNode == {"suspectNode", "mergeState", "probe", "fail"}
ByDeadNode == {"deadNode", "mergeState", "leave", "timeoutDead"}
ByAliveNode == {"aliveNode", "mergeState"}

\* the edges along which the state of an entry may change
Edge(from, to, by) ==
    \/ /\ from = StateAlive
       /\ to = StateSuspect
       /\ by \in BySuspectNode
    \/ /\ from \in {StateAlive, StateSuspect}
       /\ to \in {StateDead, StateLeft}
       /\ by \in ByDeadNode
    \/ /\ from \in {StateSuspect, StateDead, StateLeft}
       /\ to = StateAlive
       /\ by \in ByAliveNode

\* C37: the state of an entry changes only from Alive to Suspect in
\* suspectNode, from Alive or Suspect to Dead or Left in deadNode, and from
\* Suspect, Dead or Left to Alive in aliveNode; StateChange is set to the
\* clock when the state changes and is left alone when it does not.
C37_StateEdges ==
    [][\A name \in DOMAIN nodeMap \cap DOMAIN nodeMap' :
          LET old == nodeMap[name]
              new == nodeMap'[name]
          IN  IF old.State # new.State
              THEN /\ Edge(old.State, new.State, op')
                   /\ new.StateChange = now
              ELSE new.StateChange = old.StateChange]_vars

\* C37: B, Suspect since an earlier clock reading, was declared Dead by a dead
\* message, which left the timer of its suspicion running
C37_Witness ==
    /\ op = "deadNode"
    /\ "B" \in DOMAIN nodeMap
    /\ nodeMap["B"].State = StateDead
    /\ nodeMap["B"].StateChange = now
    /\ \E t \in detached : t.node = "B" /\ t.changeTime < now

\* the entry is the one aliveNode builds for a new name at lines 1138-1146:
\* Dead, incarnation 0 and the zero StateChange
Placeholder(state) ==
    /\ state.State = StateDead
    /\ state.Incarnation = 0
    /\ state.StateChange = ZeroTime

\* the calls of a handler are the alive broadcast of a and the join event
JoinsWith(calls, a) ==
    /\ Len(calls) = 2
    /\ calls[1].kind = "broadcast"
    /\ calls[1].type = "alive"
    /\ calls[1].msg = a
    /\ calls[2] = [kind |-> "join", node |-> a.Node]

\* aliveNode has inserted the node of a, Alive, with the broadcast and the join
InsertedAlive(a) ==
    /\ nodeMap'[a.Node].State = StateAlive
    /\ nodeMap'[a.Node].Incarnation = a.Incarnation
    /\ nodeMap'[a.Node].StateChange = now
    /\ JoinsWith(out', a)

\* C38, as stated: when aliveNode has inserted an entry for an unknown name the
\* entry is Alive, the join event was raised and the alive message was queued
\* for gossip, and no entry of the table is ever the Dead placeholder, whatever
\* the incarnation of the message, 0 included.
C38_InsertedIsAlive ==
    /\ [][\A a \in AliveMsgs : \A offset \in Offsets(a.Node) :
            (a.Node \notin DOMAIN nodeMap /\ RecvAlive(a, offset)
                /\ a.Node \in DOMAIN nodeMap')
                => InsertedAlive(a)]_vars
    /\ [](\A name \in DOMAIN nodeMap : ~Placeholder(nodeMap[name]))

\* an alive message with an incarnation of at least 1 about an unknown name
\* other than the local one leaves its entry Alive, with the broadcast and the
\* join event
C38_InsertedIsAliveFromOne ==
    [][\A a \in AliveMsgs : \A offset \in Offsets(a.Node) :
          (a.Node \notin DOMAIN nodeMap /\ RecvAlive(a, offset)
              /\ a.Node # Self /\ a.Incarnation >= 1)
              => (a.Node \in DOMAIN nodeMap' /\ InsertedAlive(a))]_vars

\* aliveNode has returned and left the placeholder of B in the table, counted
\* in numNodes, with no broadcast and no event
C38_PlaceholderLeft ==
    /\ op = "aliveNode"
    /\ "B" \in DOMAIN nodeMap
    /\ Placeholder(nodeMap["B"])
    /\ numNodes = 2
    /\ out = <<>>


\* s.timeoutFn of the suspicion was started by this step
Invoked(t, u) == u.calls = t.calls + 1

\* C39: the timeout callback of a suspicion is started at most once, however
\* the firing of its timer interleaves with Confirm calls: the timer starts it
\* only by firing while armed, Confirm starts it only when it accepted the
\* confirmation, stopped a timer that had not fired and the remaining time was
\* not positive, and after either nothing starts it again.
C39_CallbackAtMostOnce ==
    /\ [](\A name \in DOMAIN nodeTimers :
            LET t == nodeTimers[name]
            IN  /\ t.calls \in {0, 1}
                /\ t.calls = 1 <=> t.timer \in {"fired", "stopped"})
    /\ [][\A from \in Confirmers :
            SuspicionConfirm(from) =>
                LET t == nodeTimers["B"]
                    u == nodeTimers'["B"]
                IN  /\ u.calls \in {t.calls, t.calls + 1}
                    /\ Invoked(t, u) <=> ConfirmDispatches(t, from)
                    /\ Invoked(t, u) =>
                          /\ out'[1].ok
                          /\ t.timer = "armed"
                          /\ u.timer = "stopped"
                          /\ Callback(t) \in callbacks'
                    /\ ~Invoked(t, u) => callbacks' = callbacks
                    /\ t.timer # "armed" => u.timer = t.timer]_vars
    /\ [][TimerFire("B") =>
            /\ nodeTimers["B"].timer = "armed"
            /\ Invoked(nodeTimers["B"], nodeTimers'["B"])
            /\ nodeTimers'["B"].timer = "fired"]_vars

\* C39: Confirm stopped the timer, which was due but had not fired, and started
\* the callback itself
C39_Witness ==
    /\ op = "confirm"
    /\ out[1].ok
    /\ nodeTimers["B"].timer = "stopped"
    /\ nodeTimers["B"].calls = 1
    /\ now >= nodeTimers["B"].deadline

\* C39: the timer had fired and started the callback; a Confirm accepted after
\* that, with no time remaining, did not start it again
C39_WitnessAfterFire ==
    /\ op = "confirm"
    /\ out[1].ok
    /\ nodeTimers["B"].timer = "fired"
    /\ nodeTimers["B"].calls = 1
    /\ nodeTimers["B"].n >= 1
    /\ now - nodeTimers["B"].start >= nodeTimers["B"].max

====
